---- MODULE Spec2Model ----
(***************************************************************************)
(* pi-messenger: file-based coordination between agent processes.          *)
(*                                                                         *)
(* The module models the shared directory tree (registry, swarm.lock,      *)
(* claims.json, completions.json) and the position of every process in    *)
(* the handlers of src/store.ts, one action per filesystem operation, so   *)
(* that processes interleave exactly where the operating system lets them. *)
(***************************************************************************)
EXTENDS Integers, FiniteSets, Sequences, TLC

(***************************************************************************)
(* Bounds                                                                  *)
(***************************************************************************)
\* number of agent processes (pids 1..NumProcs)
NumProcs == 3
\* lock attempts of one withSwarmLock call (maxRetries, 50 in the source, scaled)
MaxRetries == 2
\* processes that may end (die or shut down) during a behaviour
MaxCrashes == 1
\* swarm operations started during a behaviour
MaxOps == 3
\* the retries option of acquireLock (50 for plan.lock, scaled): attempts 0..PlanRetries
PlanRetries == 1
\* plan actions started during a behaviour
MaxPlans == 3

\* names generateMemorableName draws from (the first NumThemeNames of NameList)
NumThemeNames == 2
\* register and renameAgent calls started during a behaviour
MaxRegs == 3

\* messages sent during a behaviour (the message files are numbered in name order)
MaxMsgs == 2

\* executeRename calls started while messages are sent
MaxRenames == 2
\* the longest path typed by a user (in characters of PathChars)
MaxPathLen == 3
\* tool_call events during a behaviour
MaxToolCalls == 3
\* reserve and release actions during a behaviour
MaxReserves == 2
\* join actions during a behaviour of the router
MaxJoins == 1
\* executeCrewAction calls other than join during a behaviour
MaxCrewCalls == 2
\* the largest concurrency of a spawnAgents call
MaxConcurrency == 2
\* the largest work.maxWaves of a configuration
MaxWaveLimit == 3
\* scout agents installed
MaxScouts == 3
\* processes that crew children spawn during a behaviour
MaxGrandchildren == 1
\* session ids the host hands out; a resumed session keeps its id
NumSessions == 2
\* registry reads (getActiveAgents passes over a file, validateTargetAgent calls)
MaxReads == 3
\* tasks of a plan (task-1 .. task-MaxTasks)
MaxTasks == 3
\* dependency strings the planner gives one task
MaxRefs == 2
\* child processes one spawnAgents call runs
MaxChildren == 3
\* task actions during a behaviour
MaxTaskOps == 7
\* deliver callbacks run during a behaviour
MaxDeliveries == 4

\* MAX_WATCHER_RETRIES: watcher failures in a row before polling takes over
MAX_WATCHER_RETRIES == 5
\* the cap of the retry delay in scheduleRetry, in ms
MAX_RETRY_DELAY_MS == 30000

\* register: maxAttempts when the name is generated
MaxAttempts == 3
\* findAvailableName: the last numeric suffix tried
MaxSuffix == 99
\* isValidAgentName: the longest valid name
MaxNameLength == 50
\* deliverMessage: the longest chat history kept per sender
MAX_CHAT_HISTORY == 50

Procs == 1 .. NumProcs
Msgs == 1 .. MaxMsgs

NameList == <<"Alpha", "Beta", "Gamma", "Delta", "Echo", "Foxtrot">>
Names == {NameList[i] : i \in 1 .. NumProcs}

SpecPaths == {"specX", "specY"}
TaskIds == {"TASK-1"}
Slots == SpecPaths \X TaskIds
NoSlot == <<"", "">>

(***************************************************************************)
(* Values                                                                  *)
(***************************************************************************)
\* what reading registry/<name>.json yields when the file is absent
NoReg == [pid |-> 0, sessionId |-> 0]
\* the registry directory without any file
NoFiles == [n \in {} |-> NoReg]
\* an absent entry of claims.json
NoClaim == [agent |-> "", sessionId |-> 0, pid |-> 0]
\* swarm.lock: pid 0 is an empty file, owner is the process whose open() made the inode
NoLock == [exists |-> FALSE, pid |-> 0, owner |-> 0, old |-> FALSE]
\* what fn() returns: the operation and slot asked for, the outcome, and the agent
\* (conflict, claimedBy) or slot (existing) the outcome names
NoResult == [op |-> "none", slot |-> NoSlot, kind |-> "none", agent |-> "", existing |-> NoSlot]
NoLocal == [claims |-> [s \in Slots |-> NoClaim], completions |-> [s \in Slots |-> FALSE],
            writeClaims |-> FALSE, writeCompletions |-> FALSE, result |-> NoResult]

\* no reservation; paths are sequences of characters, <<>> the empty string
NoReservation == [path |-> <<>>, isDir |-> FALSE]

\* agentsCache = null; a filled cache holds the reservations read per process
\* and whether it is younger than AGENTS_CACHE_TTL_MS
NoCache == [filled |-> FALSE, fresh |-> FALSE, allAgents |-> [p \in Procs |-> {}]]
\* no tool_call event yet
NoCall == [agent |-> 0, toolName |-> "", path |-> <<>>, block |-> FALSE]

\* no executeCrewAction call yet; an action is the sequence of the segments
\* between its dots
NoCrewResult == [agent |-> 0, action |-> <<>>, error |-> ""]

\* crew/state.ts: the autonomous state before any run
NoAutonomous == [active |-> FALSE, waveNumber |-> 0, waveHistory |-> 0, stopReason |-> ""]

\* the content of a plan.json that does not exist
NoPlan == [prd |-> "", task_count |-> 0, completed_count |-> 0]

\* a plan action that has not returned
NoPlanResult == [error |-> "", existingPrd |-> ""]

\* the tasks directory without any file
NoTasks == [n \in {} |-> [status |-> "todo", depends_on |-> {}]]

\* the child processes of one spawnAgents call
Children == 1 .. MaxChildren

\* ctx.sessionManager.getSessionId(): stable and unique per process
SessionOf(p) == p

VARIABLES
    alive,        \* alive[p]: the OS process p exists (process.kill(pid, 0) succeeds)
    registry,     \* the files registry/<n>.json: name -> pid and session id recorded
    agentName,    \* state.agentName of each process
    registered,   \* state.registered of each process
    lock,         \* <base>/swarm.lock
    claims,       \* <base>/claims.json
    completions,  \* <base>/completions.json: the slots that have a completion entry
    pc,           \* position of each process inside withSwarmLock
    tries,        \* loop index i of withSwarmLock
    opsStarted,   \* number of swarm operations started so far
    local,        \* in-memory claims/completions of fn(), its pending writes and its result
    torn,         \* slot of a completion whose process died between its two writes
    planLock,     \* <crewDir>/plan.lock
    planPc,       \* position of each process inside the plan action
    planTries,    \* loop index i of acquireLock
    planExists,   \* <crewDir>/plan.json exists
    plansStarted, \* number of plan actions started so far
    planResult,   \* what the latest plan action of each process returned
    envName,      \* process.env.PI_AGENT_NAME of each process ("" when unset)
    regPc,        \* position of each process inside register / renameAgent
    attempt,      \* loop index attempt of register
    newName,      \* the newName argument of the renameAgent call in progress
    regsStarted,  \* number of register and renameAgent calls started so far
    msgFile,      \* where the file of each message is: unsent, tmp, inbox, deleted, ...
    msgTo,        \* session id (inbox directory) each message is addressed to
    delivered,    \* how often each message was passed to the deliver callback
    deliveredOk,  \* the deliver callback has returned normally for the message
    deliveryOrder, \* per inbox (session): the messages passed to the callback, in order
    msgPc,        \* position of each process inside sendMessageToAgent / processAllPendingMessages
    sending,      \* the message a process is writing
    files,        \* the sorted listing a scan iterates over
    index,        \* how many entries of files the scan has finished
    isProcessingMessages,  \* the module-level flag of each process
    pendingProcessArgs,    \* a re-entrant call has been deferred
    chatHistory,  \* state.chatHistory of the receiver: sender -> the message ids kept
    unreadCounts, \* state.unreadCounts of the receiver: sender -> count
    seenSenders,  \* state.seenSenders of the receiver: sender -> session id (0: never seen)
    sentMessages, \* the pi.sendMessage calls the receiver has made, in order
    deliveries,   \* number of deliverMessage calls so far
    reservation,  \* a reservation as normalizeReservationPath returned it
    fileAbsPath,  \* the normalized path of a file
    matches,      \* what reservationMatches(fileAbsPath, reservation) returned
    reservations, \* state.reservations of each process, as its registration file records them
    agentsCache,  \* the module-level agentsCache of each process
    lastCall,     \* the latest tool_call event and whether the hook blocked it
    toolCalls,    \* number of tool_call events so far
    reservesStarted, \* number of reserve and release actions so far
    crewResult,   \* the latest executeCrewAction call and the error it returned
    crewCalls,    \* number of executeCrewAction calls so far
    autoRegisterPaths, \* the configuration lists the current folder for auto-registration
    tasks,        \* the files tasks/task-<n>.json: n -> status and depends_on
    plan,         \* plan.json: prd, task_count and completed_count
    taskResult,   \* the error the latest task handler returned ("" for none)
    taskOps,      \* number of task actions so far
    autonomousState, \* crew/state.ts: active, waveNumber, waveHistory (its length), stopReason
    maxWaves,     \* work.maxWaves of the crew configuration
    workPc,       \* where the orchestrating session is: in a handler, at agent_end, steered
    waveAutonomous, \* params.autonomous of the work call in flight
    concurrency,  \* the concurrency handed to spawnAgents
    tasksToRun,   \* the tasks of the wave in flight
    queue,        \* spawnAgents: the tasks not yet handed to runAgent
    running,      \* spawnAgents: the tasks whose child process has not closed
    results,      \* spawnAgents: the results (exit code, and the task the child was spawned
                  \* for) in the order the children closed
    grandchildren, \* processes spawned by crew children
    stateSessionId, \* state.sessionId of each process (0 before it registers)
    inboxDirs,    \* the session ids s whose directory inbox/<s> exists
    readerPc,     \* where each process is in the cleanup of a registration it read
    readerFile,   \* the name of the registration file that cleanup is about
    readerReg,    \* the registration the reader parsed from that file
    reads,        \* number of registry reads so far
    watcher,      \* state.watcher of each process is set (fs.watch is running)
    watcherRetries, \* state.watcherRetries of each process
    watcherRetryTimer, \* state.watcherRetryTimer is set (a retry is scheduled)
    pollTimer,    \* state.pollTimer is set (the polling loop is running)
    retryDelay,   \* the delay in ms of the retry scheduled last
    createPc,     \* where each process is inside createTask
    createId,     \* the id allocateTaskId returned to the createTask call of a process
    returnedIds,  \* the ids the finished createTask calls returned, in order
    aborted,      \* options.signal.aborted
    childPc,      \* each child process of runAgent: unspawned, running or exited
    procKilled,   \* proc.killed of each child
    sent,         \* the signals delivered to each child, in order
    killTimer     \* the 3 s timer of kill() is pending for the child

procVars == <<alive, registry, agentName, registered>>
swarmVars == <<lock, claims, completions, pc, tries, opsStarted, local, torn>>
planVars == <<planLock, planPc, planTries, planExists, plansStarted, planResult>>
regVars == <<envName, regPc, attempt, newName, regsStarted>>
msgVars == <<msgFile, msgTo, delivered, deliveredOk, deliveryOrder, msgPc, sending, files, index,
             isProcessingMessages, pendingProcessArgs>>
deliverVars == <<chatHistory, unreadCounts, seenSenders, sentMessages, deliveries>>
pathVars == <<reservation, fileAbsPath, matches>>
guardVars == <<reservations, agentsCache, lastCall, toolCalls, reservesStarted>>
routerVars == <<crewResult, crewCalls, autoRegisterPaths>>
taskVars == <<tasks, plan, taskResult, taskOps>>
crewVars == <<autonomousState, maxWaves, workPc, waveAutonomous, concurrency, tasksToRun,
              queue, running, results, grandchildren>>
readerVars == <<stateSessionId, inboxDirs, readerPc, readerFile, readerReg, reads>>
watchVars == <<watcher, watcherRetries, watcherRetryTimer, pollTimer, retryDelay>>
createVars == <<createPc, createId, returnedIds>>
killVars == <<aborted, childPc, procKilled, sent, killTimer>>
extraVars == <<watchVars, createVars, killVars>>
laterVars == <<deliverVars, pathVars, guardVars, routerVars, taskVars, crewVars, readerVars, extraVars>>
baseVars == <<procVars, swarmVars, planVars, regVars, msgVars, deliverVars, pathVars, guardVars,
              routerVars, taskVars, crewVars, readerVars>>
nonWatchVars == <<baseVars, createVars, killVars>>
nonKillVars == <<baseVars, watchVars, createVars>>
nonSwarmVars == <<planVars, regVars, msgVars, laterVars>>
nonPlanVars == <<registry, agentName, registered, swarmVars, regVars, msgVars, laterVars>>
nonRegVars == <<swarmVars, planVars, msgVars, laterVars>>
nonMsgVars == <<swarmVars, planVars, regVars, laterVars>>
coreVars == <<procVars, swarmVars, planVars, regVars, msgVars>>
nonTaskCreateVars == <<coreVars, deliverVars, pathVars, guardVars, routerVars, crewVars,
                       readerVars, watchVars, killVars>>
nonDeliverVars == <<coreVars, pathVars, guardVars, routerVars, taskVars, crewVars, readerVars, extraVars>>
nonPathVars == <<coreVars, deliverVars, guardVars, routerVars, taskVars, crewVars, readerVars, extraVars>>
nonGuardVars == <<coreVars, deliverVars, pathVars, routerVars, taskVars, crewVars, readerVars, extraVars>>
nonTaskVars == <<coreVars, deliverVars, pathVars, guardVars, routerVars, crewVars, readerVars, extraVars>>
nonCrewVars == <<coreVars, deliverVars, pathVars, guardVars, routerVars, readerVars, extraVars>>
nonReaderVars == <<swarmVars, planVars, regVars, msgVars, deliverVars, pathVars, guardVars,
                   routerVars, taskVars, crewVars, extraVars>>
nonPlanTaskVars == <<registry, agentName, registered, swarmVars, regVars, msgVars,
                     deliverVars, pathVars, guardVars, routerVars, crewVars, readerVars, extraVars,
                     taskResult, taskOps>>
vars == <<alive, registry, agentName, registered,
          lock, claims, completions, pc, tries, opsStarted, local, torn,
          planLock, planPc, planTries, planExists, plansStarted, planResult,
          envName, regPc, attempt, newName, regsStarted,
          msgFile, msgTo, delivered, deliveredOk, deliveryOrder, msgPc, sending, files, index,
          isProcessingMessages, pendingProcessArgs,
          chatHistory, unreadCounts, seenSenders, sentMessages, deliveries,
          reservation, fileAbsPath, matches,
          reservations, agentsCache, lastCall, toolCalls, reservesStarted,
          crewResult, crewCalls, autoRegisterPaths,
          tasks, plan, taskResult, taskOps,
          autonomousState, maxWaves, workPc, waveAutonomous, concurrency, tasksToRun,
          queue, running, results, grandchildren,
          stateSessionId, inboxDirs, readerPc, readerFile, readerReg, reads,
          watcher, watcherRetries, watcherRetryTimer, pollTimer, retryDelay,
          createPc, createId, returnedIds,
          aborted, childPc, procKilled, sent, killTimer>>

(***************************************************************************)
(* src/lib.ts isProcessAlive                                               *)
(***************************************************************************)
isProcessAlive(pid) == pid \in Procs /\ alive[pid]

(***************************************************************************)
(* The registry directory: read (NoReg when absent), atomic write          *)
(* (writeJsonAtomic: temp file and rename) and unlink of one file          *)
(***************************************************************************)
regFile(n) == IF n \in DOMAIN registry THEN registry[n] ELSE NoReg

writeReg(n, reg) == [m \in DOMAIN registry \cup {n} |-> IF m = n THEN reg ELSE registry[m]]

unlinkReg(n) == [m \in DOMAIN registry \ {n} |-> registry[m]]

(***************************************************************************)
(* src/store.ts: stale claims                                              *)
(***************************************************************************)
isClaimStale(claim) ==
    IF ~isProcessAlive(claim.pid) THEN TRUE
    ELSE IF regFile(claim.agent) = NoReg THEN TRUE
    ELSE IF ~isProcessAlive(regFile(claim.agent).pid) THEN TRUE
    ELSE regFile(claim.agent).sessionId # claim.sessionId

\* a cleanup that collects nothing
cleanupStaleClaimsKeepsAll(cl) == cl

cleanupStaleClaims(cl) ==
    [s \in Slots |-> IF cl[s] # NoClaim /\ isClaimStale(cl[s]) THEN NoClaim ELSE cl[s]]

\* the value cleanupStaleClaims returns
removedCount(cl) == Cardinality({s \in Slots : cl[s] # NoClaim /\ isClaimStale(cl[s])})

\* a lookup that never finds the caller's claim
findAgentClaimFindsNone(cl, agent) == NoSlot

findAgentClaim(cl, agent) ==
    IF \E s \in Slots : cl[s] # NoClaim /\ cl[s].agent = agent
    THEN CHOOSE s \in Slots : cl[s] # NoClaim /\ cl[s].agent = agent
    ELSE NoSlot

(***************************************************************************)
(* src/store.ts: the bodies fn() that claimTask, unclaimTask and           *)
(* completeTask run under withSwarmLock.  Each reads the files, decides,   *)
(* and yields the in-memory objects it is about to write back.             *)
(***************************************************************************)
Outcome(cl, co, wClaims, wCompletions, res) ==
    [claims |-> cl, completions |-> co, writeClaims |-> wClaims,
     writeCompletions |-> wCompletions, result |-> res]

Result(o, slot, kind, agent, existing) ==
    [op |-> o, slot |-> slot, kind |-> kind, agent |-> agent, existing |-> existing]

claimTask(p, slot) ==
    LET removed == removedCount(claims)
        cl == cleanupStaleClaims(claims)
        agent == agentName[p]
        existing == findAgentClaim(cl, agent)
    IN  IF existing # NoSlot
        THEN Outcome(cl, completions, removed > 0, FALSE,
                     Result("claim", slot, "already_have_claim", "", existing))
        ELSE IF cl[slot] # NoClaim
        THEN Outcome(cl, completions, removed > 0, FALSE,
                     Result("claim", slot, "already_claimed", cl[slot].agent, NoSlot))
        ELSE Outcome([cl EXCEPT ![slot] = [agent |-> agent, sessionId |-> SessionOf(p), pid |-> p]],
                     completions, TRUE, FALSE,
                     Result("claim", slot, "success", "", NoSlot))

unclaimTask(p, slot) ==
    LET removed == removedCount(claims)
        cl == cleanupStaleClaims(claims)
        agent == agentName[p]
    IN  IF cl[slot] = NoClaim
        THEN Outcome(cl, completions, removed > 0, FALSE,
                     Result("unclaim", slot, "not_claimed", "", NoSlot))
        ELSE IF cl[slot].agent # agent
        THEN Outcome(cl, completions, removed > 0, FALSE,
                     Result("unclaim", slot, "not_your_claim", cl[slot].agent, NoSlot))
        ELSE Outcome([cl EXCEPT ![slot] = NoClaim], completions, TRUE, FALSE,
                     Result("unclaim", slot, "success", "", NoSlot))

completeTask(p, slot) ==
    LET removed == removedCount(claims)
        cl == cleanupStaleClaims(claims)
        agent == agentName[p]
    IN  IF completions[slot]
        THEN Outcome(cl, completions, removed > 0, FALSE,
                     Result("complete", slot, "already_completed", "", NoSlot))
        ELSE IF cl[slot] = NoClaim
        THEN Outcome(cl, completions, removed > 0, FALSE,
                     Result("complete", slot, "not_claimed", "", NoSlot))
        ELSE IF cl[slot].agent # agent
        THEN Outcome(cl, completions, removed > 0, FALSE,
                     Result("complete", slot, "not_your_claim", cl[slot].agent, NoSlot))
        ELSE Outcome([cl EXCEPT ![slot] = NoClaim], [completions EXCEPT ![slot] = TRUE],
                     TRUE, TRUE,
                     Result("complete", slot, "success", "", NoSlot))

\* the reverse order: claims.json first
completeWritesClaimsFirst == FALSE

\* the order in which a successful completeTask writes its two files
completeWritesCompletionsFirst == TRUE

(***************************************************************************)
(* src/store.ts withSwarmLock, one action per filesystem call.  The        *)
(* arguments of claimTask / unclaimTask / completeTask are not read before *)
(* fn() runs, so the actions draw them there (CsRead).                     *)
(***************************************************************************)
InCriticalSection(p) == pc[p] \in {"cs_read", "cs_write_completions", "cs_write_claims"}

\* a budget that allows one attempt more
lastAttemptOneMore(i) == i = MaxRetries

\* if (i === maxRetries - 1) throw new Error("Failed to acquire swarm lock")
lastAttempt(i) == i = MaxRetries - 1

\* fs.openSync(lockPath, O_CREAT | O_EXCL | O_RDWR) by a process whose loop index
\* is i; EEXIST sleeps and retries, and throws "Failed to acquire swarm lock" on
\* the last attempt.  A call that threw leaves tries[p] = MaxRetries behind, the
\* number of attempts it made, until the process starts its next operation
TryOpen(p, i) ==
    IF ~lock.exists
    THEN /\ lock' = [exists |-> TRUE, pid |-> 0, owner |-> p, old |-> FALSE]
         /\ pc' = [pc EXCEPT ![p] = "lock_write"]
         /\ tries' = [tries EXCEPT ![p] = 0]
    ELSE IF lastAttempt(i)
    THEN /\ pc' = [pc EXCEPT ![p] = "idle"]
         /\ tries' = [tries EXCEPT ![p] = i + 1]
         /\ UNCHANGED lock
    ELSE /\ pc' = [pc EXCEPT ![p] = "lock_stat"]
         /\ tries' = [tries EXCEPT ![p] = i + 1]
         /\ UNCHANGED lock

\* One attempt of the loop, up to its first filesystem call that matters:
\* fs.statSync(lockPath) finds a lock older than LOCK_STALE_MS and the attempt
\* goes on to read its pid; otherwise the stat has no effect and the attempt is
\* the fs.openSync
Attempt(p, i) ==
    IF lock.exists /\ lock.old
    THEN /\ pc' = [pc EXCEPT ![p] = "lock_read"]
         /\ tries' = [tries EXCEPT ![p] = i]
         /\ UNCHANGED lock
    ELSE TryOpen(p, i)

\* the tool router runs claim / unclaim / complete for a registered caller:
\* claimTask, unclaimTask or completeTask enters withSwarmLock
StartOp(p) ==
    /\ alive[p] /\ registered[p] /\ pc[p] = "idle"
    /\ opsStarted < MaxOps
    /\ opsStarted' = opsStarted + 1
    /\ Attempt(p, 0)
    /\ UNCHANGED <<nonSwarmVars, procVars, claims, completions, local, torn>>

\* the next attempt, after the sleep of retryDelay
LockRetry(p) ==
    /\ alive[p] /\ pc[p] = "lock_stat"
    /\ Attempt(p, tries[p])
    /\ UNCHANGED <<nonSwarmVars, procVars, claims, completions, opsStarted, local, torn>>

\* fs.readFileSync(lockPath) and the liveness test of the pid it holds; a read
\* that throws (file gone) falls into the catch block, which unlinks as well
LockRead(p) ==
    /\ alive[p] /\ pc[p] = "lock_read"
    /\ pc' = [pc EXCEPT ![p] =
                IF ~lock.exists \/ lock.pid = 0 \/ ~isProcessAlive(lock.pid)
                THEN "lock_unlink" ELSE "lock_open"]
    /\ UNCHANGED <<nonSwarmVars, procVars, lock, claims, completions, tries, opsStarted, local, torn>>

\* fs.unlinkSync(lockPath) of the stale-lock eviction
LockUnlink(p) ==
    /\ alive[p] /\ pc[p] = "lock_unlink"
    /\ lock' = NoLock
    /\ pc' = [pc EXCEPT ![p] = "lock_open"]
    /\ UNCHANGED <<nonSwarmVars, procVars, claims, completions, tries, opsStarted, local, torn>>

\* the fs.openSync that follows the stale-lock check
LockOpen(p) ==
    /\ alive[p] /\ pc[p] = "lock_open"
    /\ TryOpen(p, tries[p])
    /\ UNCHANGED <<nonSwarmVars, procVars, claims, completions, opsStarted, local, torn>>

\* fs.writeSync(fd, String(process.pid)): the write goes to the inode this process
\* created, which is the file at lockPath only if nobody unlinked it meanwhile
LockWrite(p) ==
    /\ alive[p] /\ pc[p] = "lock_write"
    /\ lock' = IF lock.exists /\ lock.owner = p THEN [lock EXCEPT !.pid = p, !.old = FALSE] ELSE lock
    /\ pc' = [pc EXCEPT ![p] = "cs_read"]
    /\ UNCHANGED <<nonSwarmVars, procVars, claims, completions, tries, opsStarted, local, torn>>

\* an in-memory object that fn() will not write any more is garbage
Keep(l) ==
    [l EXCEPT !.claims = IF l.writeClaims THEN l.claims ELSE NoLocal.claims,
              !.completions = IF l.writeCompletions THEN l.completions ELSE NoLocal.completions]

\* where fn() goes after its reads, and after each write
AfterStep(l) ==
    IF l.writeCompletions /\ (completeWritesCompletionsFirst \/ ~l.writeClaims)
    THEN "cs_write_completions"
    ELSE IF l.writeClaims THEN "cs_write_claims"
    ELSE "lock_release"

\* fn(): read claims.json (and completions.json), collect stale claims, decide
CsRead(p, kind, slot) ==
    /\ alive[p] /\ pc[p] = "cs_read"
    /\ LET out == CASE kind = "claim" -> claimTask(p, slot)
                    [] kind = "unclaim" -> unclaimTask(p, slot)
                    [] OTHER -> completeTask(p, slot)
       IN  /\ local' = [local EXCEPT ![p] = Keep(out)]
           /\ pc' = [pc EXCEPT ![p] = AfterStep(out)]
    /\ UNCHANGED <<nonSwarmVars, procVars, lock, claims, completions, tries, opsStarted, torn>>

\* writeCompletionsSync (write to a temp file, rename into place)
CsWriteCompletions(p) ==
    /\ alive[p] /\ pc[p] = "cs_write_completions"
    /\ completions' = local[p].completions
    /\ LET l == [local[p] EXCEPT !.writeCompletions = FALSE]
       IN  /\ local' = [local EXCEPT ![p] = Keep(l)]
           /\ pc' = [pc EXCEPT ![p] = AfterStep(l)]
    /\ UNCHANGED <<nonSwarmVars, procVars, lock, claims, tries, opsStarted, torn>>

\* writeClaimsSync (write to a temp file, rename into place)
CsWriteClaims(p) ==
    /\ alive[p] /\ pc[p] = "cs_write_claims"
    /\ claims' = local[p].claims
    /\ LET l == [local[p] EXCEPT !.writeClaims = FALSE]
       IN  /\ local' = [local EXCEPT ![p] = Keep(l)]
           /\ pc' = [pc EXCEPT ![p] = AfterStep(l)]
    /\ UNCHANGED <<nonSwarmVars, procVars, lock, completions, tries, opsStarted, torn>>

\* finally { fs.unlinkSync(lockPath) }: removes whatever file is at lockPath;
\* the operation returns its result
LockRelease(p) ==
    /\ alive[p] /\ pc[p] = "lock_release"
    /\ lock' = NoLock
    /\ local' = [local EXCEPT ![p] = NoLocal]
    /\ pc' = [pc EXCEPT ![p] = "idle"]
    /\ UNCHANGED <<nonSwarmVars, procVars, claims, completions, tries, opsStarted, torn>>

\* wall-clock time: the lock file becomes older than LOCK_STALE_MS.  The section
\* between openSync and the unlinkSync of the release is synchronous and takes
\* far less than that, so only the lock of a dead process gets old
LockAges ==
    /\ lock.exists /\ ~lock.old
    /\ ~isProcessAlive(lock.owner)
    /\ lock' = [lock EXCEPT !.old = TRUE]
    /\ UNCHANGED <<nonSwarmVars, procVars, claims, completions, pc, tries, opsStarted, local, torn>>

\* the OS process dies wherever it is; its files stay behind
Crash(p) ==
    /\ alive[p]
    /\ Cardinality({q \in Procs : ~alive[q]}) < MaxCrashes
    /\ alive' = [alive EXCEPT ![p] = FALSE]
    /\ pc' = [pc EXCEPT ![p] = "dead"]
    /\ tries' = [tries EXCEPT ![p] = 0]
    /\ local' = [local EXCEPT ![p] = NoLocal]
    /\ torn' = IF /\ local[p].result.op = "complete" /\ local[p].result.kind = "success"
                  /\ local[p].writeClaims # local[p].writeCompletions
               THEN local[p].result.slot ELSE torn
    /\ UNCHANGED <<nonSwarmVars, registry, agentName, registered, lock, claims, completions, opsStarted>>

\* session_shutdown: src/store.ts unregister unlinks the registration file, and
\* the process ends
Shutdown(p) ==
    /\ alive[p] /\ registered[p] /\ pc[p] = "idle"
    /\ Cardinality({q \in Procs : ~alive[q]}) < MaxCrashes
    /\ registry' = unlinkReg(agentName[p])
    /\ registered' = [registered EXCEPT ![p] = FALSE]
    /\ alive' = [alive EXCEPT ![p] = FALSE]
    /\ pc' = [pc EXCEPT ![p] = "dead"]
    /\ UNCHANGED <<nonSwarmVars, agentName, lock, claims, completions, tries, opsStarted, local, torn>>

\* nobody plans: no plan.lock, no plan.json
InitPlanIdle ==
    /\ planLock = NoLock
    /\ planPc = [p \in Procs |-> "idle"]
    /\ planTries = [p \in Procs |-> 0]
    /\ planExists = FALSE
    /\ plansStarted = 0
    /\ planResult = [p \in Procs |-> NoPlanResult]

(***************************************************************************)
(* The swarm: every process has joined under a name of its own             *)
(***************************************************************************)
\* every process has joined under a name of its own
InitJoined ==
    /\ alive = [p \in Procs |-> TRUE]
    /\ agentName = [p \in Procs |-> NameList[p]]
    /\ registered = [p \in Procs |-> TRUE]
    /\ registry = [n \in Names |->
                     LET p == CHOOSE q \in Procs : NameList[q] = n
                     IN  [pid |-> p, sessionId |-> SessionOf(p)]]

\* no swarm operation runs; claims.json and completions.json are empty
InitSwarmIdle ==
    /\ lock = NoLock
    /\ claims = [s \in Slots |-> NoClaim]
    /\ completions = [s \in Slots |-> FALSE]
    /\ pc = [p \in Procs |-> "idle"]
    /\ tries = [p \in Procs |-> 0]
    /\ opsStarted = 0
    /\ local = [p \in Procs |-> NoLocal]
    /\ torn = NoSlot

\* no register or renameAgent call runs
InitRegIdle ==
    /\ regPc = [p \in Procs |-> "idle"]
    /\ attempt = [p \in Procs |-> 0]
    /\ newName = [p \in Procs |-> ""]
    /\ regsStarted = 0

\* no message was sent and no scan runs
InitMsgIdle ==
    /\ msgFile = [m \in Msgs |-> "unsent"]
    /\ msgTo = [m \in Msgs |-> 0]
    /\ delivered = [m \in Msgs |-> 0]
    /\ deliveredOk = [m \in Msgs |-> FALSE]
    /\ deliveryOrder = [p \in Procs |-> <<>>]
    /\ msgPc = [p \in Procs |-> "idle"]
    /\ sending = [p \in Procs |-> 0]
    /\ files = [p \in Procs |-> <<>>]
    /\ index = [p \in Procs |-> 0]
    /\ isProcessingMessages = [p \in Procs |-> FALSE]
    /\ pendingProcessArgs = [p \in Procs |-> FALSE]

\* the receiver has no history, no unread message and has seen no sender
InitDeliverIdle ==
    /\ chatHistory = [n \in Names |-> <<>>]
    /\ unreadCounts = [n \in Names |-> 0]
    /\ seenSenders = [n \in Names |-> 0]
    /\ sentMessages = <<>>
    /\ deliveries = 0

\* no path has been looked at
InitPathIdle ==
    /\ reservation = NoReservation
    /\ fileAbsPath = <<>>
    /\ matches = FALSE

\* nobody holds a reservation, no cache is filled and no tool was called
InitGuardIdle ==
    /\ reservations = [p \in Procs |-> {}]
    /\ agentsCache = [p \in Procs |-> NoCache]
    /\ lastCall = NoCall
    /\ toolCalls = 0
    /\ reservesStarted = 0

\* no action was routed; the folder is not configured for auto-registration
InitRouterIdle ==
    /\ crewResult = NoCrewResult
    /\ crewCalls = 0
    /\ autoRegisterPaths = FALSE

\* no plan.json and no task file
InitTaskIdle ==
    /\ tasks = NoTasks
    /\ plan = NoPlan
    /\ taskResult = ""
    /\ taskOps = 0

\* crew/state.ts autonomousState as the module initialises it; no handler runs
InitCrewIdle ==
    /\ autonomousState = NoAutonomous
    /\ maxWaves = 1
    /\ workPc = "idle"
    /\ waveAutonomous = FALSE
    /\ concurrency = 1
    /\ tasksToRun = {}
    /\ queue = {}
    /\ running = {}
    /\ results = <<>>
    /\ grandchildren = 0

\* no reader is cleaning up; the inbox directories are not looked at
InitReaderIdle ==
    /\ stateSessionId = [p \in Procs |-> 0]
    /\ inboxDirs = {}
    /\ readerPc = [p \in Procs |-> "idle"]
    /\ readerFile = [p \in Procs |-> ""]
    /\ readerReg = [p \in Procs |-> NoReg]
    /\ reads = 0

\* no watcher, no retry and no polling loop has been started
InitWatchIdle ==
    /\ watcher = [p \in Procs |-> FALSE]
    /\ watcherRetries = [p \in Procs |-> 0]
    /\ watcherRetryTimer = [p \in Procs |-> FALSE]
    /\ pollTimer = [p \in Procs |-> FALSE]
    /\ retryDelay = [p \in Procs |-> 0]

\* no createTask call is under way and none has returned
InitCreateIdle ==
    /\ createPc = [p \in Procs |-> "idle"]
    /\ createId = [p \in Procs |-> 0]
    /\ returnedIds = <<>>

\* no child has been spawned and the abort signal has not fired
InitKillIdle ==
    /\ aborted = FALSE
    /\ childPc = [c \in Children |-> "unspawned"]
    /\ procKilled = [c \in Children |-> FALSE]
    /\ sent = [c \in Children |-> <<>>]
    /\ killTimer = [c \in Children |-> FALSE]

\* the parts of the model added last are at rest
InitExtraIdle == InitWatchIdle /\ InitCreateIdle /\ InitKillIdle

\* the parts of the program outside the coordination files are at rest
InitLaterIdle ==
    /\ InitDeliverIdle /\ InitPathIdle /\ InitGuardIdle /\ InitRouterIdle /\ InitTaskIdle
    /\ InitCrewIdle /\ InitReaderIdle /\ InitExtraIdle

\* everything but the processes and their registrations is at rest
InitIdle ==
    /\ InitSwarmIdle /\ InitPlanIdle /\ InitRegIdle /\ InitMsgIdle /\ InitLaterIdle

InitSwarm ==
    /\ InitJoined /\ envName = [p \in Procs |-> ""]
    /\ InitIdle

NextSwarm ==
    \/ \E p \in Procs : StartOp(p)
    \/ \E p \in Procs : LockRetry(p)
    \/ \E p \in Procs : LockRead(p)
    \/ \E p \in Procs : LockUnlink(p)
    \/ \E p \in Procs : LockOpen(p)
    \/ \E p \in Procs : LockWrite(p)
    \/ \E p \in Procs, kind \in {"claim", "unclaim", "complete"}, slot \in Slots : CsRead(p, kind, slot)
    \/ \E p \in Procs : CsWriteCompletions(p)
    \/ \E p \in Procs : CsWriteClaims(p)
    \/ \E p \in Procs : LockRelease(p)
    \/ LockAges
    \/ \E p \in Procs : Crash(p)
    \/ \E p \in Procs : Shutdown(p)

SpecSwarm == InitSwarm /\ [][NextSwarm]_vars

(***************************************************************************)
(* Properties of the swarm                                                 *)
(***************************************************************************)
\* no live process is inside fn()
Quiescent == \A p \in Procs : alive[p] => ~InCriticalSection(p)

\* the slots whose entry in claims.json names the agent
ClaimsOf(a) == {s \in Slots : claims[s] # NoClaim /\ claims[s].agent = a}

\* process p leaves the reads of fn() with its decision in local'
Decides(p) == pc[p] = "cs_read" /\ pc'[p] # "cs_read" /\ alive'[p]

\* C1: whenever no process is inside the swarm critical section, every agent
\* owns at most one claim in claims.json, across all specs.
SingleClaimPerAgent ==
    Quiescent => \A a \in Names : Cardinality(ClaimsOf(a)) <= 1

\* C1 witness: an agent that owns a claim has asked for a second one and was
\* refused with already_have_claim naming the claim it owns.
SingleClaimWitness ==
    \E p \in Procs :
        /\ pc[p] = "lock_release"
        /\ local[p].result.op = "claim"
        /\ local[p].result.kind = "already_have_claim"
        /\ local[p].result.existing # local[p].result.slot
        /\ ClaimsOf(agentName[p]) = {local[p].result.existing}
        /\ Quiescent

\* C2: of the live agents that claim one (spec, task id), at most one is granted
\* the claim; an agent refused with already_claimed is told an agent other than
\* itself as the conflict.
ExclusiveClaimPerSlot ==
    /\ \A p, q \in Procs :
          /\ p # q /\ alive[p] /\ alive[q]
          /\ local[p].result.op = "claim" /\ local[p].result.kind = "success"
          /\ local[q].result.op = "claim" /\ local[q].result.kind = "success"
          => local[p].result.slot # local[q].result.slot
    /\ \A p \in Procs :
          local[p].result.kind = "already_claimed" => local[p].result.agent # agentName[p]

\* C3: once (spec, task id) is in completions.json, no claim for it succeeds.
CompletionTerminality ==
    [][\A p \in Procs, s \in Slots :
          /\ Decides(p) /\ completions[s]
          /\ local'[p].result.op = "claim" /\ local'[p].result.slot = s
          => local'[p].result.kind # "success"]_vars

\* C4: whenever no process is inside the swarm critical section and no process
\* died between the two writes of a completion, no (spec, task id) is both in
\* claims.json and in completions.json.
ClaimedOrCompleted ==
    (Quiescent /\ torn = NoSlot) => \A s \in Slots : ~(claims[s] # NoClaim /\ completions[s])

\* C5: at most one live process is inside the swarm critical section.
SwarmMutualExclusion ==
    Cardinality({p \in Procs : alive[p] /\ InCriticalSection(p)}) <= 1

\* C8: a claim on the (spec, task id) of a dead process's claim, made by a live
\* agent that has no claim in claims.json, succeeds.
DeadClaimNeverBlocks ==
    [][\A p \in Procs, s \in Slots :
          /\ Decides(p)
          /\ local'[p].result.op = "claim" /\ local'[p].result.slot = s
          /\ claims[s] # NoClaim /\ ~alive[claims[s].pid]
          /\ ClaimsOf(agentName[p]) = {}
          => /\ local'[p].result.kind = "success"
             /\ local'[p].claims[s].pid = p]_vars

\* C8 witness: a live agent has been granted the slot that claims.json still
\* shows as claimed by a dead process.
DeadClaimWitness ==
    \E p \in Procs :
        /\ alive[p] /\ pc[p] = "cs_write_claims"
        /\ local[p].result.op = "claim" /\ local[p].result.kind = "success"
        /\ claims[local[p].result.slot] # NoClaim
        /\ ~alive[claims[local[p].result.slot].pid]

\* C9: a successful completion has written completions.json when it writes
\* claims.json; and the claim a dead process left on a completed (spec, task id)
\* is dropped by the next fn() that runs, which writes claims.json without it.
CompletionsWrittenFirst ==
    /\ [](\A p \in Procs :
            /\ pc[p] = "cs_write_claims"
            /\ local[p].result.op = "complete" /\ local[p].result.kind = "success"
            => ~local[p].writeCompletions)
    /\ [][\A q \in Procs, s \in Slots :
            /\ Decides(q)
            /\ claims[s] # NoClaim /\ ~alive[claims[s].pid] /\ completions[s]
            => /\ local'[q].writeClaims
               /\ local'[q].claims[s].pid # claims[s].pid]_vars

\* C9 witness: a process died between the two writes of its completion, and a
\* later swarm operation has removed the claim it left behind.
DanglingClaimWitness ==
    /\ torn # NoSlot
    /\ completions[torn]
    /\ claims[torn] = NoClaim
    /\ Quiescent

\* the claim on the slot, if it is one that cleanupStaleClaims keeps
currentClaim(slot) ==
    IF claims[slot] # NoClaim /\ ~isClaimStale(claims[slot]) THEN claims[slot] ELSE NoClaim

\* what an unclaim or complete of the slot answers to an agent that is not
\* its claimant
refusal(op, slot) ==
    IF op = "complete" /\ completions[slot] THEN "already_completed"
    ELSE IF currentClaim(slot) = NoClaim THEN "not_claimed"
    ELSE "not_your_claim"

\* C29: an unclaim or complete of a slot by an agent that is not its current
\* claimant is answered not_your_claim (not_claimed when the slot has no
\* claim, already_completed when it has a completion), and no step of that
\* operation changes the claim on the slot or completions.json.
OnlyClaimantRemoves ==
    [][\A p \in Procs :
          LET res == local[p].result
              decided == local'[p].result
              refused == /\ res.op \in {"unclaim", "complete"}
                         /\ res.kind \in {"not_your_claim", "not_claimed", "already_completed"}
          IN  /\ (/\ Decides(p) /\ decided.op \in {"unclaim", "complete"}
                  /\ \/ currentClaim(decided.slot) = NoClaim
                     \/ currentClaim(decided.slot).agent # agentName[p]
                     \/ decided.op = "complete" /\ completions[decided.slot])
                    => /\ decided.kind = refusal(decided.op, decided.slot)
                       /\ ~local'[p].writeCompletions
              /\ (alive'[p] /\ InCriticalSection(p) /\ pc'[p] # pc[p] /\ refused)
                    => /\ completions' = completions
                       /\ currentClaim(res.slot) # NoClaim => claims'[res.slot] = claims[res.slot]]_vars

\* swarm.lock exists and the process that created it is alive
heldByLiveProcess == lock.exists /\ isProcessAlive(lock.owner)

\* the loop index of the attempt that process p makes next
attemptIndex(p) == IF pc[p] = "idle" THEN 0 ELSE tries[p]

\* process p makes an attempt of the withSwarmLock loop: the first one of a
\* new operation, or the next one after the sleep
makesAttempt(p) ==
    /\ alive'[p]
    /\ \/ pc[p] = "idle" /\ pc'[p] # "idle"
       \/ pc[p] = "lock_stat" /\ <<pc'[p], tries'[p]>> # <<pc[p], tries[p]>>

\* C26: an attempt of a contender that finds swarm.lock held by a live process
\* leaves the lock file, claims.json and completions.json as they are and runs
\* no critical section; before the last attempt of the budget the contender
\* sleeps and tries again, and on the last attempt the operation fails
SwarmLockBudget ==
    [][\A p \in Procs :
          (makesAttempt(p) /\ heldByLiveProcess) =>
              /\ lock' = lock /\ claims' = claims /\ completions' = completions
              /\ local'[p] = NoLocal /\ ~InCriticalSection(p)'
              /\ IF attemptIndex(p) = MaxRetries - 1
                 THEN pc'[p] = "idle" /\ tries'[p] = MaxRetries
                 ELSE pc'[p] = "lock_stat" /\ tries'[p] = attemptIndex(p) + 1]_vars

\* a contender has used up its budget and failed while a live process is
\* inside its critical section with its lock file in place
SwarmLockFailedWitness ==
    \E p \in Procs :
        /\ alive[p] /\ pc[p] = "idle" /\ tries[p] = MaxRetries
        /\ heldByLiveProcess /\ lock.owner # p /\ lock.pid = lock.owner
        /\ InCriticalSection(lock.owner)

(***************************************************************************)
(* src/crew/utils/lock.ts acquireLock and the plan action that runs under  *)
(* plan.lock, one action per filesystem call or await                      *)
(***************************************************************************)
\* allocateTaskId: one more than the largest number among the task files
allocateTaskId ==
    IF DOMAIN tasks = {} THEN 1
    ELSE 1 + CHOOSE n \in DOMAIN tasks : \A k \in DOMAIN tasks : k <= n

\* params.prd, or the PRD file discoverPRD finds
PrdPaths == {"PRD.md", "docs/PRD.md"}

InPlanBody(p) == planPc[p] \in {"plan_get", "plan_create", "plan_planner"}

\* fs.openSync(lockPath, O_CREAT | O_EXCL | O_RDWR) of attempt i; on EEXIST the
\* last attempt (i >= retries) returns acquired: false and the plan action
\* answers "locked", an earlier one sleeps retryDelayMs
PlanTryOpen(p, i) ==
    IF ~planLock.exists
    THEN /\ planLock' = [exists |-> TRUE, pid |-> 0, owner |-> p, old |-> FALSE]
         /\ planPc' = [planPc EXCEPT ![p] = "plan_lock_write"]
         /\ planTries' = [planTries EXCEPT ![p] = 0]
         /\ UNCHANGED planResult
    ELSE IF i >= PlanRetries
    THEN /\ planPc' = [planPc EXCEPT ![p] = "idle"]
         /\ planTries' = [planTries EXCEPT ![p] = 0]
         /\ planResult' = [planResult EXCEPT ![p] = [error |-> "locked", existingPrd |-> ""]]
         /\ UNCHANGED planLock
    ELSE /\ planPc' = [planPc EXCEPT ![p] = "plan_lock_stat"]
         /\ planTries' = [planTries EXCEPT ![p] = i + 1]
         /\ UNCHANGED <<planLock, planResult>>

\* one attempt of the loop: fs.statSync finds a lock older than staleMs and the
\* attempt goes on to read its pid; otherwise the attempt is the fs.openSync
PlanAttempt(p, i) ==
    IF planLock.exists /\ planLock.old
    THEN /\ planPc' = [planPc EXCEPT ![p] = "plan_lock_read"]
         /\ planTries' = [planTries EXCEPT ![p] = i]
         /\ UNCHANGED <<planLock, planResult>>
    ELSE PlanTryOpen(p, i)

\* the plan action starts: acquireLock(<crewDir>/plan.lock, retries, staleMs)
PlanStart(p) ==
    /\ alive[p] /\ planPc[p] = "idle"
    /\ plansStarted < MaxPlans
    /\ plansStarted' = plansStarted + 1
    /\ PlanAttempt(p, 0)
    /\ UNCHANGED <<nonPlanVars, alive, planExists>>

\* the next attempt, after sleep(retryDelayMs)
PlanLockRetry(p) ==
    /\ alive[p] /\ planPc[p] = "plan_lock_stat"
    /\ PlanAttempt(p, planTries[p])
    /\ UNCHANGED <<nonPlanVars, alive, planExists, plansStarted, planResult>>

\* fs.readFileSync(lockPath) of the stale cleanup and isProcessAlive(pid); a read
\* that throws falls into the catch block, which unlinks as well
PlanLockRead(p) ==
    /\ alive[p] /\ planPc[p] = "plan_lock_read"
    /\ planPc' = [planPc EXCEPT ![p] =
                    IF ~planLock.exists \/ planLock.pid = 0 \/ ~isProcessAlive(planLock.pid)
                    THEN "plan_lock_unlink" ELSE "plan_lock_open"]
    /\ UNCHANGED <<nonPlanVars, alive, planLock, planTries, planExists, plansStarted, planResult>>

\* fs.unlinkSync(lockPath) of the stale cleanup
PlanLockUnlink(p) ==
    /\ alive[p] /\ planPc[p] = "plan_lock_unlink"
    /\ planLock' = NoLock
    /\ planPc' = [planPc EXCEPT ![p] = "plan_lock_open"]
    /\ UNCHANGED <<nonPlanVars, alive, planTries, planExists, plansStarted, planResult>>

\* the fs.openSync that follows the stale cleanup
PlanLockOpen(p) ==
    /\ alive[p] /\ planPc[p] = "plan_lock_open"
    /\ PlanTryOpen(p, planTries[p])
    /\ UNCHANGED <<nonPlanVars, alive, planExists, plansStarted, planResult>>

\* fs.writeSync(fd, String(process.pid)) into the inode this process created;
\* acquireLock returns acquired: true
PlanLockWrite(p) ==
    /\ alive[p] /\ planPc[p] = "plan_lock_write"
    /\ planLock' = IF planLock.exists /\ planLock.owner = p
                   THEN [planLock EXCEPT !.pid = p, !.old = FALSE] ELSE planLock
    /\ planPc' = [planPc EXCEPT ![p] = "plan_get"]
    /\ UNCHANGED <<nonPlanVars, alive, planTries, planExists, plansStarted, planResult>>

\* store.getPlan(cwd): an existing plan.json ends the action with plan_exists
\* and the prd of that plan
PlanGetPlan(p) ==
    /\ alive[p] /\ planPc[p] = "plan_get"
    /\ planPc' = [planPc EXCEPT ![p] = IF planExists THEN "plan_release" ELSE "plan_create"]
    /\ planResult' = [planResult EXCEPT ![p] =
                        IF planExists THEN [error |-> "plan_exists", existingPrd |-> plan.prd]
                        ELSE NoPlanResult]
    /\ UNCHANGED <<nonPlanVars, alive, planLock, planTries, planExists, plansStarted>>

\* store.createPlan(cwd, prdPath): the content of a new plan.json
createPlan(prdPath) == [prd |-> prdPath, task_count |-> 0, completed_count |-> 0]

\* the PRD and the planner agent are looked up (prd_not_found, no_prd and
\* no_planner end the action); then store.createPlan(cwd, prdPath) writes plan.json
PlanCreatePlan(p, found, prdPath) ==
    /\ alive[p] /\ planPc[p] = "plan_create"
    /\ planExists' = (found \/ planExists)
    /\ plan' = IF found THEN createPlan(prdPath) ELSE plan
    /\ planResult' = IF found THEN planResult
                     ELSE [planResult EXCEPT ![p] = [error |-> "prd_not_found", existingPrd |-> ""]]
    /\ planPc' = [planPc EXCEPT ![p] = IF found THEN "plan_planner" ELSE "plan_release"]
    /\ UNCHANGED <<nonPlanTaskVars, alive, planLock, planTries, plansStarted, tasks>>

\* the errors with which a plan action gives up after createPlan: the planner
\* failed on pass 1 or, in the handler that plans with scouts and a gap
\* analyst, every scout or the analyst failed
PlanFailures == {"planner_failed", "analyst_failed", "all_scouts_failed"}

\* a deletePlan that leaves the files where they are
deletePlanNothing == [exists |-> planExists, plan |-> plan, tasks |-> tasks]

\* store.deletePlan(cwd): plan.json, plan.md and every task file are unlinked
deletePlan == [exists |-> FALSE, plan |-> NoPlan, tasks |-> NoTasks]

\* await spawnAgents(...) returns: child agents that fail make the action call
\* store.deletePlan(cwd) and return the error; otherwise store.createTask writes
\* the task parsed from the output (none when there is no room for one) and
\* adds one to the task_count of the plan.json that is there
PlanPlannerReturns(p, exitOk, error) ==
    /\ alive[p] /\ planPc[p] = "plan_planner"
    /\ IF ~exitOk
       THEN /\ planExists' = deletePlan.exists
            /\ plan' = deletePlan.plan
            /\ tasks' = deletePlan.tasks
            /\ planResult' = [planResult EXCEPT ![p] = [error |-> error, existingPrd |-> ""]]
       ELSE /\ IF allocateTaskId <= MaxTasks
               THEN /\ tasks' = [n \in DOMAIN tasks \cup {allocateTaskId} |->
                                    IF n = allocateTaskId
                                    THEN [status |-> "todo", depends_on |-> {}]
                                    ELSE tasks[n]]
                    /\ plan' = IF planExists THEN [plan EXCEPT !.task_count = @ + 1] ELSE plan
               ELSE UNCHANGED <<tasks, plan>>
            /\ UNCHANGED <<planExists, planResult>>
    /\ planPc' = [planPc EXCEPT ![p] = "plan_release"]
    /\ UNCHANGED <<nonPlanTaskVars, alive, planLock, planTries, plansStarted>>

\* finally { lock.release() }: fs.unlinkSync(lockPath), whatever file is there
PlanLockRelease(p) ==
    /\ alive[p] /\ planPc[p] = "plan_release"
    /\ planLock' = NoLock
    /\ planPc' = [planPc EXCEPT ![p] = "idle"]
    /\ UNCHANGED <<nonPlanVars, alive, planTries, planExists, plansStarted, planResult>>

\* wall-clock time: plan.lock becomes older than staleMs.  Its holder is dead, or
\* it is awaiting the planner, which may take that long; the synchronous steps
\* of a live holder do not
PlanLockAges ==
    /\ planLock.exists /\ ~planLock.old
    /\ \/ ~isProcessAlive(planLock.owner)
       \/ planLock.pid = planLock.owner /\ planPc[planLock.owner] = "plan_planner"
    /\ planLock' = [planLock EXCEPT !.old = TRUE]
    /\ UNCHANGED <<nonPlanVars, alive, planPc, planTries, planExists, plansStarted, planResult>>

\* the OS process dies wherever it is in the plan action; its files stay behind
PlanCrash(p) ==
    /\ alive[p]
    /\ Cardinality({q \in Procs : ~alive[q]}) < MaxCrashes
    /\ alive' = [alive EXCEPT ![p] = FALSE]
    /\ planPc' = [planPc EXCEPT ![p] = "dead"]
    /\ planTries' = [planTries EXCEPT ![p] = 0]
    /\ UNCHANGED <<nonPlanVars, planLock, planExists, plansStarted, planResult>>

InitPlan ==
    /\ InitJoined /\ envName = [p \in Procs |-> ""]
    /\ InitIdle

NextPlan ==
    \/ \E p \in Procs : PlanStart(p)
    \/ \E p \in Procs : PlanLockRetry(p)
    \/ \E p \in Procs : PlanLockRead(p)
    \/ \E p \in Procs : PlanLockUnlink(p)
    \/ \E p \in Procs : PlanLockOpen(p)
    \/ \E p \in Procs : PlanLockWrite(p)
    \/ \E p \in Procs : PlanGetPlan(p)
    \/ \E p \in Procs, found \in BOOLEAN, prdPath \in PrdPaths : PlanCreatePlan(p, found, prdPath)
    \/ \E p \in Procs, exitOk \in BOOLEAN, error \in PlanFailures :
          PlanPlannerReturns(p, exitOk, error)
    \/ \E p \in Procs : PlanLockRelease(p)
    \/ PlanLockAges
    \/ \E p \in Procs : PlanCrash(p)

SpecPlan == InitPlan /\ [][NextPlan]_vars

\* C6: at most one live process is inside the body of the plan action.
PlanMutualExclusion ==
    Cardinality({p \in Procs : alive[p] /\ InPlanBody(p)}) <= 1

\* C20: a project has at most one plan.  createPlan never writes over a plan
\* that exists, and a plan action that finds a plan returns plan_exists with
\* the prd of that plan and leaves plan.json and the task files as they are,
\* also when several plan actions run at once.
AtMostOnePlan ==
    [][\A p \in Procs :
          /\ (planPc[p] = "plan_create" /\ planPc'[p] = "plan_planner") => ~planExists
          /\ (planPc[p] = "plan_get" /\ planPc'[p] \notin {"plan_get", "dead"} /\ planExists) =>
                /\ planResult'[p] = [error |-> "plan_exists", existingPrd |-> plan.prd]
                /\ plan' = plan /\ tasks' = tasks /\ planExists']_vars

\* C21: a plan action that fails with planner_failed, analyst_failed or
\* all_scouts_failed leaves no plan behind: the step in which it gives up
\* removes plan.json and the task files, so that the getPlan of a later plan
\* action finds nothing.
FailedPlanRolledBack ==
    [][\A p \in Procs :
          (planResult'[p] # planResult[p] /\ planResult'[p].error \in PlanFailures) =>
              ~planExists' /\ plan' = NoPlan /\ tasks' = NoTasks]_vars

\* a plan action has failed after createPlan and returned, and the plan action
\* of another process has since passed getPlan without plan_exists
RolledBackWitness ==
    \E p, q \in Procs :
        /\ p # q
        /\ planResult[p].error \in PlanFailures /\ planPc[p] = "idle"
        /\ planPc[q] = "plan_create" /\ planResult[q] = NoPlanResult
        /\ ~planExists

(***************************************************************************)
(* The listing of an inbox and the start and end of a scan                 *)
(* (processAllPendingMessages), which renameAgent and startWatcher call    *)
(***************************************************************************)
\* the .json files in the inbox of a session
InboxFiles(session) == {m \in Msgs : msgTo[m] = session /\ msgFile[m] = "inbox"}

\* .sort() of a listing
RECURSIVE Sorted(_)
Sorted(S) ==
    IF S = {} THEN <<>>
    ELSE LET least == CHOOSE m \in S : \A n \in S : m <= n
         IN  <<least>> \o Sorted(S \ {least})

\* a finally block that clears the flag and drops the deferred call
ScanFinishForgets(p) ==
    /\ isProcessingMessages' = [isProcessingMessages EXCEPT ![p] = FALSE]
    /\ pendingProcessArgs' = [pendingProcessArgs EXCEPT ![p] = FALSE]
    /\ msgPc' = [msgPc EXCEPT ![p] = "idle"]
    /\ files' = [files EXCEPT ![p] = <<>>]
    /\ index' = [index EXCEPT ![p] = 0]

\* the finally block of processAllPendingMessages: the flag is cleared and a
\* deferred call runs the function again
ScanFinish(p) ==
    /\ isProcessingMessages' = [isProcessingMessages EXCEPT ![p] = FALSE]
    /\ pendingProcessArgs' = [pendingProcessArgs EXCEPT ![p] = FALSE]
    /\ msgPc' = [msgPc EXCEPT ![p] = IF pendingProcessArgs[p] THEN "scan_again" ELSE "idle"]
    /\ files' = [files EXCEPT ![p] = <<>>]
    /\ index' = [index EXCEPT ![p] = 0]

\* isProcessingMessages = true; fs.readdirSync(inbox).filter(.json).sort()
ScanList(p) ==
    IF InboxFiles(SessionOf(p)) = {}
    THEN ScanFinish(p)
    ELSE /\ isProcessingMessages' = [isProcessingMessages EXCEPT ![p] = TRUE]
         /\ files' = [files EXCEPT ![p] = Sorted(InboxFiles(SessionOf(p)))]
         /\ index' = [index EXCEPT ![p] = 0]
         /\ msgPc' = [msgPc EXCEPT ![p] = "scan_deliver"]
         /\ UNCHANGED pendingProcessArgs

(***************************************************************************)
(* src/store.ts register, renameAgent and unregister, one action per       *)
(* filesystem call that another process can observe                        *)
(***************************************************************************)
ThemeNames == {NameList[i] : i \in 1 .. NumThemeNames}

\* src/lib.ts isValidAgentName; the names of the model match its pattern
isValidAgentName(name) == name # "" /\ Len(name) <= MaxNameLength

\* the suffixes whose registration file is absent or names a dead process
freeSuffixes(baseName) ==
    {i \in 2 .. MaxSuffix :
        LET altReg == regFile(baseName \o ToString(i))
        IN  altReg = NoReg \/ ~isProcessAlive(altReg.pid)}

\* findAvailableName called by process p; "" is its null
findAvailableName(baseName, p) ==
    IF regFile(baseName) = NoReg THEN baseName
    ELSE IF ~isProcessAlive(regFile(baseName).pid) \/ regFile(baseName).pid = p THEN baseName
    ELSE IF freeSuffixes(baseName) = {} THEN ""
    ELSE baseName \o ToString(CHOOSE i \in freeSuffixes(baseName) :
                                  \A j \in freeSuffixes(baseName) : i <= j)

\* the file of the name holds the pid of a live process other than p
nameInUse(name, p) ==
    /\ regFile(name) # NoReg
    /\ isProcessAlive(regFile(name).pid)
    /\ regFile(name).pid # p

\* register returns false
RegisterFails(p, name) ==
    /\ agentName' = [agentName EXCEPT ![p] = name]
    /\ regPc' = [regPc EXCEPT ![p] = "idle"]
    /\ attempt' = [attempt EXCEPT ![p] = 0]

\* the head of one pass of register's loop: validate the explicit name and see
\* whether it is in use, or find an available name for a generated one
RegisterCheck(p, name, i) ==
    LET availableName == IF envName[p] # "" THEN name ELSE findAvailableName(name, p)
    IN  IF envName[p] # "" /\ (~isValidAgentName(name) \/ nameInUse(name, p))
        THEN RegisterFails(p, name)
        ELSE IF availableName = ""
        THEN RegisterFails(p, name)
        ELSE /\ agentName' = [agentName EXCEPT ![p] = availableName]
             /\ regPc' = [regPc EXCEPT ![p] = "reg_exists"]
             /\ attempt' = [attempt EXCEPT ![p] = i]

\* register is called by a process that is not registered: state.agentName is
\* PI_AGENT_NAME or a generated name; first pass of the loop
RegisterStart(p, generated) ==
    /\ alive[p] /\ ~registered[p] /\ regPc[p] = "idle"
    /\ regsStarted < MaxRegs
    /\ regsStarted' = regsStarted + 1
    /\ RegisterCheck(p, IF agentName[p] = "" THEN generated ELSE agentName[p], 0)
    /\ UNCHANGED <<nonRegVars, alive, registry, registered, envName, newName>>

\* the next pass, after a lost race on a generated name
RegisterRetry(p) ==
    /\ alive[p] /\ regPc[p] = "reg_check"
    /\ RegisterCheck(p, agentName[p], attempt[p])
    /\ UNCHANGED <<nonRegVars, alive, registry, registered, envName, newName, regsStarted>>

\* fs.existsSync(regPath)
RegisterExists(p) ==
    /\ alive[p] /\ regPc[p] = "reg_exists"
    /\ regPc' = [regPc EXCEPT ![p] =
                   IF regFile(agentName[p]) # NoReg THEN "reg_unlink" ELSE "reg_write"]
    /\ UNCHANGED <<nonRegVars, procVars, envName, attempt, newName, regsStarted>>

\* fs.unlinkSync(regPath) of the file found there
RegisterUnlink(p) ==
    /\ alive[p] /\ regPc[p] = "reg_unlink"
    /\ registry' = unlinkReg(agentName[p])
    /\ regPc' = [regPc EXCEPT ![p] = "reg_write"]
    /\ UNCHANGED <<nonRegVars, alive, agentName, registered, envName, attempt, newName, regsStarted>>

\* writeJsonAtomic(regPath, registration)
RegisterWrite(p) ==
    /\ alive[p] /\ regPc[p] = "reg_write"
    /\ registry' = writeReg(agentName[p], [pid |-> p, sessionId |-> SessionOf(p)])
    /\ regPc' = [regPc EXCEPT ![p] = "reg_verify"]
    /\ UNCHANGED <<nonRegVars, alive, agentName, registered, envName, attempt, newName, regsStarted>>

\* the read-back: written.pid === process.pid registers the process; otherwise
\* an explicit name gives up and a generated one takes the next pass (the cleanup
\* after a failed read finds no file of this process and removes nothing)
RegisterVerify(p) ==
    /\ alive[p] /\ regPc[p] = "reg_verify"
    /\ IF regFile(agentName[p]).pid = p
       THEN /\ registered' = [registered EXCEPT ![p] = TRUE]
            /\ regPc' = [regPc EXCEPT ![p] = "idle"]
            /\ attempt' = [attempt EXCEPT ![p] = 0]
       ELSE /\ UNCHANGED registered
            /\ IF envName[p] # "" \/ attempt[p] + 1 >= MaxAttempts
               THEN /\ regPc' = [regPc EXCEPT ![p] = "idle"]
                    /\ attempt' = [attempt EXCEPT ![p] = 0]
               ELSE /\ regPc' = [regPc EXCEPT ![p] = "reg_check"]
                    /\ attempt' = [attempt EXCEPT ![p] = attempt[p] + 1]
    /\ UNCHANGED <<nonRegVars, alive, registry, agentName, envName, newName, regsStarted>>

\* executeRename(newName) by a registered process, between two of its other
\* handlers: stopWatcher, then renameAgent.  invalid_name, same_name and
\* name_taken return at once and the watcher is started again; otherwise the
\* call goes on to drain the inbox
RenameStart(p, name) ==
    /\ alive[p] /\ registered[p] /\ regPc[p] = "idle" /\ msgPc[p] = "idle"
    /\ regsStarted < MaxRegs
    /\ regsStarted' = regsStarted + 1
    /\ IF ~isValidAgentName(name) \/ name = agentName[p] \/ nameInUse(name, p)
       THEN /\ regPc' = [regPc EXCEPT ![p] = "ren_watch"]
            /\ UNCHANGED newName
       ELSE /\ regPc' = [regPc EXCEPT ![p] = "ren_drain"]
            /\ newName' = [newName EXCEPT ![p] = name]
    /\ UNCHANGED <<nonRegVars, procVars, envName, attempt>>

\* a rename that records a session id of its own making
renameRegistrationFreshSession(p) == [pid |-> p, sessionId |-> NumProcs + SessionOf(p)]

\* the registration renameAgent writes: the process's pid and state.sessionId
renameRegistration(p) == [pid |-> p, sessionId |-> SessionOf(p)]

\* processAllPendingMessages(state, dirs, deliverFn) inside renameAgent: the
\* scan of the own inbox begins (and ends at once when the inbox is empty)
RenameDrain(p) ==
    /\ alive[p] /\ regPc[p] = "ren_drain"
    /\ ScanList(p)
    /\ regPc' = [regPc EXCEPT ![p] = "ren_write"]
    /\ UNCHANGED <<swarmVars, planVars, laterVars, procVars, envName, attempt, newName,
                   regsStarted, msgFile, msgTo, delivered, deliveredOk, deliveryOrder, sending>>

\* writeJsonAtomic(newRegPath, registration), once the drain has returned
RenameWrite(p) ==
    /\ alive[p] /\ regPc[p] = "ren_write" /\ msgPc[p] = "idle"
    /\ registry' = writeReg(newName[p], renameRegistration(p))
    /\ regPc' = [regPc EXCEPT ![p] = "ren_verify"]
    /\ UNCHANGED <<nonRegVars, alive, agentName, registered, envName, attempt, newName, regsStarted>>

\* the read-back of newRegPath
RenameVerify(p) ==
    /\ alive[p] /\ regPc[p] = "ren_verify"
    /\ regPc' = [regPc EXCEPT ![p] =
                   IF regFile(newName[p]).pid = p THEN "ren_unlink_old" ELSE "ren_unlink_new"]
    /\ UNCHANGED <<nonRegVars, procVars, envName, attempt, newName, regsStarted>>

\* race_lost: fs.unlinkSync(newRegPath), whatever file is there
RenameRaceLost(p) ==
    /\ alive[p] /\ regPc[p] = "ren_unlink_new"
    /\ registry' = unlinkReg(newName[p])
    /\ regPc' = [regPc EXCEPT ![p] = "ren_watch"]
    /\ newName' = [newName EXCEPT ![p] = ""]
    /\ UNCHANGED <<nonRegVars, alive, agentName, registered, envName, attempt, regsStarted>>

\* success: fs.unlinkSync(oldRegPath) and state.agentName = newName
RenameUnlinkOld(p) ==
    /\ alive[p] /\ regPc[p] = "ren_unlink_old"
    /\ registry' = unlinkReg(agentName[p])
    /\ agentName' = [agentName EXCEPT ![p] = newName[p]]
    /\ regPc' = [regPc EXCEPT ![p] = "ren_watch"]
    /\ newName' = [newName EXCEPT ![p] = ""]
    /\ UNCHANGED <<nonRegVars, alive, registered, envName, attempt, regsStarted>>

\* store.startWatcher at the end of executeRename, whether renameAgent
\* succeeded or not: processAllPendingMessages, then fs.watch
RenameStartWatcher(p) ==
    /\ alive[p] /\ regPc[p] = "ren_watch"
    /\ ScanList(p)
    /\ regPc' = [regPc EXCEPT ![p] = "idle"]
    /\ UNCHANGED <<swarmVars, planVars, laterVars, procVars, envName, attempt, newName,
                   regsStarted, msgFile, msgTo, delivered, deliveredOk, deliveryOrder, sending>>

\* session_shutdown: unregister unlinks the file at the process's registration
\* path, and the process ends
RegShutdown(p) ==
    /\ alive[p] /\ registered[p] /\ regPc[p] = "idle"
    /\ Cardinality({q \in Procs : ~alive[q]}) < MaxCrashes
    /\ registry' = unlinkReg(agentName[p])
    /\ registered' = [registered EXCEPT ![p] = FALSE]
    /\ alive' = [alive EXCEPT ![p] = FALSE]
    /\ regPc' = [regPc EXCEPT ![p] = "dead"]
    /\ UNCHANGED <<nonRegVars, agentName, envName, attempt, newName, regsStarted>>

\* the OS process dies wherever it is; its registration file stays behind
RegCrash(p) ==
    /\ alive[p]
    /\ Cardinality({q \in Procs : ~alive[q]}) < MaxCrashes
    /\ alive' = [alive EXCEPT ![p] = FALSE]
    /\ regPc' = [regPc EXCEPT ![p] = "dead"]
    /\ attempt' = [attempt EXCEPT ![p] = 0]
    /\ newName' = [newName EXCEPT ![p] = ""]
    /\ UNCHANGED <<nonRegVars, registry, agentName, registered, envName, regsStarted>>

\* processes that have not joined yet, each with or without PI_AGENT_NAME
InitReg ==
    /\ alive = [p \in Procs |-> TRUE]
    /\ envName \in [Procs -> {""} \cup ThemeNames]
    /\ agentName = envName
    /\ registered = [p \in Procs |-> FALSE]
    /\ registry = NoFiles
    /\ InitIdle

NextReg ==
    \/ \E p \in Procs, generated \in ThemeNames : RegisterStart(p, generated)
    \/ \E p \in Procs : RegisterRetry(p)
    \/ \E p \in Procs : RegisterExists(p)
    \/ \E p \in Procs : RegisterUnlink(p)
    \/ \E p \in Procs : RegisterWrite(p)
    \/ \E p \in Procs : RegisterVerify(p)
    \/ \E p \in Procs, name \in ThemeNames : RenameStart(p, name)
    \/ \E p \in Procs : RenameDrain(p)
    \/ \E p \in Procs : RenameWrite(p)
    \/ \E p \in Procs : RenameVerify(p)
    \/ \E p \in Procs : RenameRaceLost(p)
    \/ \E p \in Procs : RenameUnlinkOld(p)
    \/ \E p \in Procs : RenameStartWatcher(p)
    \/ \E p \in Procs : RegShutdown(p)
    \/ \E p \in Procs : RegCrash(p)

SpecReg == InitReg /\ [][NextReg]_vars

\* C7: no two live registered processes have the same name.
NameUniqueness ==
    \A p, q \in Procs :
        (p # q /\ alive[p] /\ alive[q] /\ registered[p] /\ registered[q])
        => agentName[p] # agentName[q]

\* C27: while the registration file of the name a registering process has
\* chosen shows the pid of another live process, no step of its register call
\* unlinks or overwrites that file.
ForeignRegistrationUntouched ==
    [][\A p \in Procs :
          (/\ alive'[p] /\ regPc[p] \in {"reg_unlink", "reg_write"} /\ regPc'[p] # regPc[p]
           /\ nameInUse(agentName[p], p))
             => registry' = registry]_vars

(***************************************************************************)
(* src/store.ts sendMessageToAgent, processAllPendingMessages and the      *)
(* removal of an inbox directory.  The inbox of a process is               *)
(* inbox/<its session id>; the files of the messages are numbered in the   *)
(* order of their names.                                                   *)
(***************************************************************************)
\* safeRmDir(inbox/<session>): every file in it goes, the temp files of senders
\* and the .deadletter directory included
safeRmDir(session) ==
    [m \in Msgs |->
        IF msgTo[m] # session THEN msgFile[m]
        ELSE CASE msgFile[m] = "inbox" -> "removed"
               [] msgFile[m] = "tmp" -> "tmp_removed"
               [] msgFile[m] = "deadletter" -> "deadletter_removed"
               [] OTHER -> msgFile[m]]

\* a scan that unlinks the file whether the callback returned or threw
afterDeliverAlwaysUnlinks(ok) == "scan_unlink"

\* what the loop body does after deliverFn(msg): unlink the file when the
\* callback returned, quarantine it when the callback threw
afterDeliver(ok) == IF ok THEN "scan_unlink" ELSE "scan_quarantine"

\* executeSend to one recipient: store.validateTargetAgent(name) refuses a name
\* without registration (not_found); for a registration of a dead process it
\* unlinks the registration, removes that session's inbox and refuses
\* (not_active); otherwise sendMessageToAgent starts for the session recorded
SendStart(p, name) ==
    /\ alive[p] /\ registered[p] /\ msgPc[p] = "idle" /\ regPc[p] = "idle"
    /\ name # agentName[p]
    /\ \E m \in Msgs :
          /\ msgFile[m] = "unsent" /\ \A n \in Msgs : n < m => msgFile[n] # "unsent"
          /\ \A q \in Procs : sending[q] # m
          /\ IF regFile(name) = NoReg
             THEN UNCHANGED <<registry, msgFile, msgTo, msgPc, sending>>
             ELSE IF ~isProcessAlive(regFile(name).pid)
             THEN /\ registry' = unlinkReg(name)
                  /\ msgFile' = safeRmDir(regFile(name).sessionId)
                  /\ UNCHANGED <<msgTo, msgPc, sending>>
             ELSE /\ msgTo' = [msgTo EXCEPT ![m] = regFile(name).sessionId]
                  /\ sending' = [sending EXCEPT ![p] = m]
                  /\ msgPc' = [msgPc EXCEPT ![p] = "send_write"]
                  /\ UNCHANGED <<registry, msgFile>>
    /\ UNCHANGED <<nonMsgVars, alive, agentName, registered, delivered, deliveredOk, deliveryOrder, files, index,
                   isProcessingMessages, pendingProcessArgs>>

\* ensureDirSync(targetInbox) and fs.writeFileSync(tmp, ...)
SendWrite(p) ==
    /\ alive[p] /\ msgPc[p] = "send_write"
    /\ msgFile' = [msgFile EXCEPT ![sending[p]] = "tmp"]
    /\ msgPc' = [msgPc EXCEPT ![p] = "send_rename"]
    /\ UNCHANGED <<nonMsgVars, procVars, msgTo, delivered, deliveredOk, deliveryOrder, sending, files, index,
                   isProcessingMessages, pendingProcessArgs>>

\* fs.renameSync(tmp, msgFile); it throws when the temp file is gone
SendRename(p) ==
    /\ alive[p] /\ msgPc[p] = "send_rename"
    /\ msgFile' = [msgFile EXCEPT ![sending[p]] = IF @ = "tmp" THEN "inbox" ELSE @]
    /\ msgPc' = [msgPc EXCEPT ![p] = "idle"]
    /\ sending' = [sending EXCEPT ![p] = 0]
    /\ UNCHANGED <<nonMsgVars, procVars, msgTo, delivered, deliveredOk, deliveryOrder, files, index,
                   isProcessingMessages, pendingProcessArgs>>

\* the watcher's debounce timer, the poll timer, turn_end or renameAgent calls
\* processAllPendingMessages in a registered process
ScanStart(p) ==
    /\ alive[p] /\ registered[p] /\ msgPc[p] = "idle" /\ regPc[p] = "idle"
    /\ ~isProcessingMessages[p]
    /\ ScanList(p)
    /\ UNCHANGED <<nonMsgVars, procVars, msgFile, msgTo, delivered, deliveredOk, deliveryOrder, sending>>

\* the deferred call made by the finally block
ScanAgain(p) ==
    /\ alive[p] /\ msgPc[p] = "scan_again"
    /\ ScanList(p)
    /\ UNCHANGED <<nonMsgVars, procVars, msgFile, msgTo, delivered, deliveredOk, deliveryOrder, sending>>

\* the loop goes to the next file, or ends
ScanNext(p) ==
    IF index[p] + 1 = Len(files[p])
    THEN ScanFinish(p)
    ELSE /\ index' = [index EXCEPT ![p] = index[p] + 1]
         /\ msgPc' = [msgPc EXCEPT ![p] = "scan_deliver"]
         /\ UNCHANGED <<files, isProcessingMessages, pendingProcessArgs>>

\* fs.readFileSync, JSON.parse and deliverFn(msg) for the current file.  The
\* callback returns (ok) or throws; it may call processAllPendingMessages
\* itself (reenters), which the flag defers.  A file that is gone makes the
\* read throw, and the quarantine finds nothing to move
ScanDeliver(p, ok, reenters) ==
    /\ alive[p] /\ msgPc[p] = "scan_deliver"
    /\ LET m == files[p][index[p] + 1]
       IN  IF msgFile[m] # "inbox"
           THEN /\ ScanNext(p)
                /\ UNCHANGED <<delivered, deliveredOk, deliveryOrder>>
           ELSE /\ delivered' = [delivered EXCEPT ![m] = @ + 1]
                /\ deliveredOk' = [deliveredOk EXCEPT ![m] = @ \/ ok]
                /\ deliveryOrder' = [deliveryOrder EXCEPT ![SessionOf(p)] = Append(@, m)]
                /\ pendingProcessArgs' = [pendingProcessArgs EXCEPT ![p] = @ \/ reenters]
                /\ msgPc' = [msgPc EXCEPT ![p] = afterDeliver(ok)]
                /\ UNCHANGED <<files, index, isProcessingMessages>>
    /\ UNCHANGED <<nonMsgVars, procVars, msgFile, msgTo, sending>>

\* fs.unlinkSync(msgPath) after the callback returned
ScanUnlink(p) ==
    /\ alive[p] /\ msgPc[p] = "scan_unlink"
    /\ msgFile' = [msgFile EXCEPT ![files[p][index[p] + 1]] = "deleted"]
    /\ ScanNext(p)
    /\ UNCHANGED <<nonMsgVars, procVars, msgTo, delivered, deliveredOk, deliveryOrder, sending>>

\* fs.renameSync(msgPath, <inbox>/.deadletter/...) after the callback threw
ScanQuarantine(p) ==
    /\ alive[p] /\ msgPc[p] = "scan_quarantine"
    /\ msgFile' = [msgFile EXCEPT ![files[p][index[p] + 1]] = "deadletter"]
    /\ ScanNext(p)
    /\ UNCHANGED <<nonMsgVars, procVars, msgTo, delivered, deliveredOk, deliveryOrder, sending>>

\* session_shutdown: stopWatcher, then unregister unlinks the registration and
\* removes the inbox of the session; the process ends
MsgShutdown(p) ==
    /\ alive[p] /\ registered[p] /\ msgPc[p] = "idle"
    /\ Cardinality({q \in Procs : ~alive[q]}) < MaxCrashes
    /\ registry' = unlinkReg(agentName[p])
    /\ msgFile' = safeRmDir(SessionOf(p))
    /\ registered' = [registered EXCEPT ![p] = FALSE]
    /\ alive' = [alive EXCEPT ![p] = FALSE]
    /\ msgPc' = [msgPc EXCEPT ![p] = "exited"]
    /\ UNCHANGED <<nonMsgVars, agentName, msgTo, delivered, deliveredOk, deliveryOrder, sending, files, index,
                   isProcessingMessages, pendingProcessArgs>>

\* the OS process dies wherever it is; its files stay behind
MsgCrash(p) ==
    /\ alive[p]
    /\ Cardinality({q \in Procs : ~alive[q]}) < MaxCrashes
    /\ alive' = [alive EXCEPT ![p] = FALSE]
    /\ msgPc' = [msgPc EXCEPT ![p] = "crashed"]
    /\ sending' = [sending EXCEPT ![p] = 0]
    /\ files' = [files EXCEPT ![p] = <<>>]
    /\ index' = [index EXCEPT ![p] = 0]
    /\ isProcessingMessages' = [isProcessingMessages EXCEPT ![p] = FALSE]
    /\ pendingProcessArgs' = [pendingProcessArgs EXCEPT ![p] = FALSE]
    /\ UNCHANGED <<nonMsgVars, registry, agentName, registered, msgFile, msgTo, delivered,
                   deliveredOk, deliveryOrder>>

InitMsg ==
    /\ InitJoined /\ envName = [p \in Procs |-> ""]
    /\ InitIdle

NextMsg ==
    \/ \E p \in Procs, name \in Names : SendStart(p, name)
    \/ \E p \in Procs : SendWrite(p)
    \/ \E p \in Procs : SendRename(p)
    \/ \E p \in Procs : ScanStart(p)
    \/ \E p \in Procs : ScanAgain(p)
    \/ \E p \in Procs, ok \in BOOLEAN, reenters \in BOOLEAN : ScanDeliver(p, ok, reenters)
    \/ \E p \in Procs : ScanUnlink(p)
    \/ \E p \in Procs : ScanQuarantine(p)
    \/ \E p \in Procs : MsgShutdown(p)
    \/ \E p \in Procs : MsgCrash(p)

SpecMsg == InitMsg /\ [][NextMsg]_vars

\* the process that owns the inbox of a session
OwnerOf(session) == CHOOSE p \in Procs : SessionOf(p) = session

\* the file a scanning process is working on
Current(p) == files[p][index[p] + 1]

MailOf(id) == [id |-> id, from |-> NameList[id]]

\* what getActiveAgents(...).find(a => a.name === msg.from)?.sessionId may be:
\* 0 when no live peer has the name, else the session of the peer found
SenderSessions == {0} \cup {SessionOf(p) : p \in Procs}

\* the receiver's state the callback works on
receiverState ==
    [chatHistory |-> chatHistory, unreadCounts |-> unreadCounts,
     seenSenders |-> seenSenders, sentMessages |-> sentMessages]

\* deliverMessage(msg): push to the sender's history (dropping the oldest entry
\* beyond MAX_CHAT_HISTORY), count one more unread message, remember the
\* sender's session when it could be looked up, and call pi.sendMessage with the
\* content, which starts with the sender's details on a new identity
deliverMessage(st, msg, senderSessionId) ==
    LET history == Append(st.chatHistory[msg.from], msg.id)
        prevSessionId == st.seenSenders[msg.from]
        isNewIdentity == prevSessionId = 0
                         \/ (senderSessionId # 0 /\ prevSessionId # senderSessionId)
    IN  [chatHistory |-> [st.chatHistory EXCEPT ![msg.from] =
                             IF Len(history) > MAX_CHAT_HISTORY THEN Tail(history) ELSE history],
         unreadCounts |-> [st.unreadCounts EXCEPT ![msg.from] = @ + 1],
         seenSenders |-> IF senderSessionId # 0
                         THEN [st.seenSenders EXCEPT ![msg.from] = senderSessionId]
                         ELSE st.seenSenders,
         sentMessages |-> Append(st.sentMessages,
                                 [id |-> msg.id,
                                  details |-> isNewIdentity /\ senderSessionId # 0])]

\* the callback is called with message id
Deliver(id, senderSessionId) ==
    /\ deliveries < MaxDeliveries
    /\ LET st == deliverMessage(receiverState, MailOf(id), senderSessionId)
       IN  /\ chatHistory' = st.chatHistory
           /\ unreadCounts' = st.unreadCounts
           /\ seenSenders' = st.seenSenders
           /\ sentMessages' = st.sentMessages
    /\ deliveries' = deliveries + 1
    /\ UNCHANGED nonDeliverVars

\* the overlay's selectTab(agentName): the chat of the agent is read
SelectTab(name) ==
    /\ unreadCounts' = [unreadCounts EXCEPT ![name] = 0]
    /\ UNCHANGED <<nonDeliverVars, chatHistory, seenSenders, sentMessages, deliveries>>

InitDeliver ==
    /\ InitJoined /\ envName = [p \in Procs |-> ""]
    /\ InitIdle

NextDeliver ==
    \/ \E id \in Msgs, senderSessionId \in SenderSessions : Deliver(id, senderSessionId)
    \/ \E name \in Names : SelectTab(name)

SpecDeliver == InitDeliver /\ [][NextDeliver]_vars

\* C11: passing a message to the deliver callback a second time leaves the
\* receiver (chat history, unread counts, seen senders, notifications sent) in
\* the state the first delivery produced.
DeliverTwiceSameAsOnce ==
    \A id \in Msgs, senderSessionId \in SenderSessions :
        LET once == deliverMessage(receiverState, MailOf(id), senderSessionId)
        IN  deliverMessage(once, MailOf(id), senderSessionId) = once

\* C12: within one inbox the messages reach the deliver callback in ascending
\* order of their file names, over the whole life of the inbox: no message is
\* delivered after a message whose file name sorts later.
AscendingDeliveryOrder ==
    \A p \in Procs : \A i, j \in 1 .. Len(deliveryOrder[p]) :
        i < j => deliveryOrder[p][i] <= deliveryOrder[p][j]

(***************************************************************************)
(* Renaming while messages are sent: executeRename of src/lib.ts next to    *)
(* sendMessageToAgent and the scans of the inboxes                          *)
(***************************************************************************)
\* the names a rename asks for: one that no process joined under
RenameNames == {NameList[NumProcs + 1]}

InitRenameMsg ==
    /\ InitJoined /\ envName = [p \in Procs |-> ""]
    /\ InitIdle

\* what one process does next in executeRename
RenameStep(p) ==
    \/ RenameDrain(p)
    \/ RenameWrite(p)
    \/ RenameVerify(p)
    \/ RenameRaceLost(p)
    \/ RenameUnlinkOld(p)
    \/ RenameStartWatcher(p)

\* what one process does next in sendMessageToAgent or in a scan; the
\* callback is deliverMessage, which does not call back into the scan
MsgStep(p) ==
    \/ SendWrite(p)
    \/ SendRename(p)
    \/ ScanStart(p)
    \/ \E ok \in BOOLEAN : ScanDeliver(p, ok, FALSE)
    \/ ScanUnlink(p)
    \/ ScanQuarantine(p)

NextRenameMsg ==
    \/ \E p \in Procs, name \in RenameNames : regsStarted < MaxRenames /\ RenameStart(p, name)
    \/ \E p \in Procs : RenameStep(p)
    \/ \E p \in Procs, name \in Names \cup RenameNames : SendStart(p, name)
    \/ \E p \in Procs : MsgStep(p)

\* a handler that has started runs on, and a file in the inbox of a registered
\* process is scanned (fs.watch event, poll timer, turn_end)
SpecRenameMsg ==
    /\ InitRenameMsg /\ [][NextRenameMsg]_vars
    /\ \A p \in Procs : WF_vars(RenameStep(p)) /\ WF_vars(MsgStep(p))

\* a send has accepted the message: validateTargetAgent returned a registration
Accepted(m) == msgTo[m] # 0

\* the registration files of a process record the session id it joined with,
\* and an accepted message is addressed to the inbox of that session and is
\* never removed
RenameKeepsMailbox ==
    /\ \A n \in DOMAIN registry : registry[n].sessionId = SessionOf(registry[n].pid)
    /\ \A m \in Msgs : Accepted(m) =>
          /\ \E p \in Procs : alive[p] /\ registered[p] /\ SessionOf(p) = msgTo[m]
          /\ msgFile[m] \in {"unsent", "tmp", "inbox", "deleted", "deadletter"}
          /\ delivered[m] = 0 => msgFile[m] \in {"unsent", "tmp", "inbox"}

\* C13: across a rename the agent keeps its session id and inbox, and every
\* message a send accepted under the old or the new name, before, during or
\* after the rename, is delivered.
RenameOrphansNoMessage ==
    /\ []RenameKeepsMailbox
    /\ \A m \in Msgs : Accepted(m) ~> (delivered[m] > 0)

\* a process has renamed itself and a message sent to its new name was
\* delivered to it, as was one sent to its old name
RenameWitness ==
    \E p \in Procs, m, n \in Msgs :
        /\ agentName[p] \in RenameNames /\ regPc[p] = "idle"
        /\ m # n /\ msgTo[m] = SessionOf(p) /\ msgTo[n] = SessionOf(p)
        /\ delivered[m] > 0 /\ delivered[n] > 0

(***************************************************************************)
(* src/lib.ts normalizeFsPath, normalizeReservationPath, reservationMatches *)
(* Paths are sequences of characters.                                       *)
(***************************************************************************)
\* the characters of the paths: the separator and two letters
PathChars == {"/", "a", "x"}

\* the strings a user may type as a path
PathInputs == UNION {[1 .. n -> PathChars] : n \in 0 .. MaxPathLen}

\* process.cwd(): the root or a directory below it
Cwds == {<<"/">>, <<"/", "a">>}

\* String.prototype.startsWith and endsWith
StartsWith(s, prefix) == Len(prefix) <= Len(s) /\ SubSeq(s, 1, Len(prefix)) = prefix
EndsWithSlash(s) == s # <<>> /\ s[Len(s)] = "/"

\* trimmed.replace(/[\\/]+$/, "")
RECURSIVE withoutTrailing(_)
withoutTrailing(s) ==
    IF EndsWithSlash(s) THEN withoutTrailing(SubSeq(s, 1, Len(s) - 1)) ELSE s

\* path.normalize on an absolute path: runs of separators become one separator
RECURSIVE normalize(_)
normalize(s) ==
    IF Len(s) < 2 THEN s
    ELSE IF s[1] = "/" /\ s[2] = "/" THEN normalize(Tail(s))
    ELSE <<s[1]>> \o normalize(Tail(s))

\* path.resolve(cwd, relative): the joined path, normalized, without a
\* trailing separator unless it is the root
resolve(cwd, inputPath) ==
    LET joined == normalize(cwd \o <<"/">> \o inputPath)
    IN  IF withoutTrailing(joined) = <<>> THEN <<"/">> ELSE withoutTrailing(joined)

isAbsolute(inputPath) == inputPath # <<>> /\ inputPath[1] = "/"

normalizeFsPath(inputPath, cwd) ==
    normalize(IF isAbsolute(inputPath) THEN inputPath ELSE resolve(cwd, inputPath))

normalizeReservationPath(input, cwd) ==
    [path |-> normalizeFsPath(withoutTrailing(input), cwd), isDir |-> EndsWithSlash(input)]

\* a match on the bare prefix, without the separator
reservationMatchesBarePrefix(file, res) ==
    /\ file # <<>>
    /\ IF res.isDir THEN StartsWith(file, res.path) ELSE file = res.path

reservationMatches(file, res) ==
    /\ file # <<>>
    /\ IF res.isDir
       THEN LET prefix == IF EndsWithSlash(res.path) THEN res.path ELSE res.path \o <<"/">>
            IN  file = res.path \/ StartsWith(file, prefix)
       ELSE file = res.path

\* a path is normalized and compared with the reservation
MatchFile(input, cwd) ==
    /\ fileAbsPath' = normalizeFsPath(input, cwd)
    /\ matches' = reservationMatches(normalizeFsPath(input, cwd), reservation)
    /\ UNCHANGED <<nonPathVars, reservation>>

\* any reservation a user can make, no file looked at yet
InitPath ==
    /\ InitJoined /\ envName = [p \in Procs |-> ""]
    /\ InitSwarmIdle /\ InitPlanIdle /\ InitRegIdle /\ InitMsgIdle
    /\ InitDeliverIdle /\ InitGuardIdle /\ InitRouterIdle /\ InitTaskIdle /\ InitCrewIdle /\ InitReaderIdle /\ InitExtraIdle
    /\ reservation \in {normalizeReservationPath(input, cwd) : input \in PathInputs, cwd \in Cwds}
    /\ fileAbsPath = <<>>
    /\ matches = FALSE

NextPath == \E input \in PathInputs, cwd \in Cwds : MatchFile(input, cwd)

SpecPath == InitPath /\ [][NextPath]_vars

\* the reservation is on the root directory
OnRoot == reservation.path = <<"/">>

\* the file is the reserved path followed by one character that is no separator
Sibling ==
    /\ Len(fileAbsPath) = Len(reservation.path) + 1
    /\ StartsWith(fileAbsPath, reservation.path)
    /\ fileAbsPath[Len(fileAbsPath)] # "/"

\* C14 (as stated): a directory reservation D matches P exactly when P = D
\* or P starts with D + "/", a file reservation exactly when P = D, and a
\* sibling D + "x" is never matched.
ReservationMatchesAsStated ==
    /\ matches <=> IF reservation.isDir
                   THEN \/ fileAbsPath = reservation.path
                        \/ StartsWith(fileAbsPath, reservation.path \o <<"/">>)
                   ELSE fileAbsPath = reservation.path
    /\ Sibling => ~matches

\* C14: for every directory D but the root the statement holds as it stands;
\* a directory reservation on the root "/" matches every absolute path, the
\* paths "/x" included.
ReservationMatchesExceptRoot ==
    /\ ~(reservation.isDir /\ OnRoot) => ReservationMatchesAsStated
    /\ (reservation.isDir /\ OnRoot) => (matches <=> StartsWith(fileAbsPath, <<"/">>))

\* a directory reservation below the root matched a file inside it
ReservationMatchWitness ==
    /\ reservation.isDir /\ ~OnRoot /\ matches
    /\ fileAbsPath # reservation.path

(***************************************************************************)
(* Reservation enforcement: the tool_call hook of the extension,           *)
(* getConflictsWithOtherAgents and getActiveAgents with its cache, next to  *)
(* the reserve and release actions of the peers                            *)
(***************************************************************************)
\* the tools an agent calls
ToolNames == {"read", "write", "edit"}
\* what the peers reserve: the directory /a/ or the file /x
ReserveInputs == {<<"/", "a", "/">>, <<"/", "x">>}
\* the paths the tools are called with
ToolPaths == {<<"/", "a", "/", "x">>, <<"/", "a", "x">>, <<"/", "x">>}
\* process.cwd() of the agents
GuardCwd == <<"/">>

\* state.reservations without the entry of the same normalized key, plus the
\* new entry, written to the registration file by updateRegistration
afterReserve(p, input) ==
    [reservations EXCEPT ![p] = @ \cup {normalizeReservationPath(input, GuardCwd)}]

\* state.reservations = [], written to the registration file
afterRelease(p) == [reservations EXCEPT ![p] = {}]

\* executeReserve with one path
Reserve(p, input) ==
    /\ alive[p] /\ registered[p]
    /\ reservesStarted < MaxReserves
    /\ reservesStarted' = reservesStarted + 1
    /\ reservations' = afterReserve(p, input)
    /\ UNCHANGED <<nonGuardVars, agentsCache, lastCall, toolCalls>>

\* executeRelease(true): state.reservations = [] and updateRegistration
Release(p) ==
    /\ alive[p] /\ registered[p]
    /\ reservesStarted < MaxReserves
    /\ reservesStarted' = reservesStarted + 1
    /\ reservations' = afterRelease(p)
    /\ UNCHANGED <<nonGuardVars, agentsCache, lastCall, toolCalls>>

\* getActiveAgents reading from disk: the reservations in the registration
\* file of every live process
readRegistry == [p \in Procs |-> IF isProcessAlive(p) THEN reservations[p] ELSE {}]

\* agentsCache && now - agentsCache.timestamp < AGENTS_CACHE_TTL_MS
cacheValid(b) == agentsCache[b].filled /\ agentsCache[b].fresh

\* what getActiveAgents works with in process b: the cached list while the
\* cache is valid, the registry otherwise
allAgents(b) == IF cacheValid(b) THEN agentsCache[b].allAgents ELSE readRegistry

\* getConflictsWithOtherAgents: the reservations of the agents other than b
\* that match the normalized path
conflicts(b, path) ==
    {r \in UNION {allAgents(b)[a] : a \in Procs \ {b}} :
        reservationMatches(normalizeFsPath(path, GuardCwd), r)}

\* the tool_call hook of process b: tools other than edit and write pass
\* unseen; otherwise the call is blocked when there is a conflict, and
\* getActiveAgents leaves a fresh cache when it read the registry
ToolCall(b, toolName, path) ==
    /\ alive[b]
    /\ toolCalls < MaxToolCalls
    /\ toolCalls' = toolCalls + 1
    /\ IF toolName \notin {"edit", "write"}
       THEN /\ lastCall' = [agent |-> b, toolName |-> toolName, path |-> path, block |-> FALSE]
            /\ UNCHANGED agentsCache
       ELSE /\ lastCall' = [agent |-> b, toolName |-> toolName, path |-> path,
                            block |-> conflicts(b, path) # {}]
            /\ agentsCache' = [agentsCache EXCEPT ![b] =
                                  [filled |-> TRUE, fresh |-> TRUE, allAgents |-> allAgents(b)]]
    /\ UNCHANGED <<nonGuardVars, reservations, reservesStarted>>

\* AGENTS_CACHE_TTL_MS pass since the cache of process b was filled
CacheExpires(b) ==
    /\ agentsCache[b].filled /\ agentsCache[b].fresh
    /\ agentsCache' = [agentsCache EXCEPT ![b].fresh = FALSE]
    /\ UNCHANGED <<nonGuardVars, reservations, lastCall, toolCalls, reservesStarted>>

InitGuard ==
    /\ InitJoined /\ envName = [p \in Procs |-> ""]
    /\ InitIdle

NextGuard ==
    \/ \E p \in Procs, input \in ReserveInputs : Reserve(p, input)
    \/ \E p \in Procs : Release(p)
    \/ \E b \in Procs, toolName \in ToolNames, path \in ToolPaths : ToolCall(b, toolName, path)
    \/ \E b \in Procs : CacheExpires(b)

SpecGuard == InitGuard /\ [][NextGuard]_vars

\* some live peer other than b has, in its registration, a reservation that
\* matches the normalized path
ReservedByPeer(b, path) ==
    \E a \in Procs \ {b} :
        /\ alive[a]
        /\ \E r \in reservations[a] : reservationMatches(normalizeFsPath(path, GuardCwd), r)

\* C15: a tool call is blocked exactly when it is a write or an edit whose
\* normalized path matches a reservation that is, at the time of the call, in
\* the registration of a live peer other than the caller; other tools are
\* never blocked, and an edit retried after the release goes through.
BlockedIffReservedNow ==
    [][toolCalls' # toolCalls =>
          (lastCall'.block <=>
              /\ lastCall'.toolName \in {"edit", "write"}
              /\ ReservedByPeer(lastCall'.agent, lastCall'.path))]_vars

(***************************************************************************)
(* src/crew/index.ts executeCrewAction: the router of the action strings   *)
(***************************************************************************)
\* the actions called: a sequence of segments stands for the segments joined
\* by dots ("task.list" is <<"task", "list">>)
CrewActions == {<<"status">>, <<"reserve">>, <<"release">>, <<"task", "list">>,
                <<"autoRegisterPath">>}

\* params.autoRegisterPath ("" when missing)
AutoRegisterValues == {"", "add", "remove", "list"}

\* group: the action up to its first dot, the whole action without one
groupOf(action) == action[1]

\* a router without the gate
notRegisteredNever(p) == FALSE

\* !state.registered
notRegistered(p) == ~registered[p]

\* executeCrewAction(action, params) in process p, for the groups other than
\* join: autoRegisterPath edits the configuration; every other group returns
\* notRegisteredError() for a caller that has not joined, and otherwise runs
\* its handler (reserve and release change the reservations, status and
\* task.list only read)
CrewAction(p, action, value) ==
    /\ alive[p]
    /\ regPc[p] = "idle"
    /\ crewCalls < MaxCrewCalls
    /\ crewCalls' = crewCalls + 1
    /\ IF groupOf(action) = "autoRegisterPath"
       THEN /\ autoRegisterPaths' = CASE value = "add" -> TRUE
                                      [] value = "remove" -> FALSE
                                      [] OTHER -> autoRegisterPaths
            /\ crewResult' = [agent |-> p, action |-> action,
                              error |-> CASE value = "" -> "missing_value"
                                          [] OTHER -> ""]
            /\ UNCHANGED reservations
       ELSE IF notRegistered(p)
       THEN /\ crewResult' = [agent |-> p, action |-> action, error |-> "not_registered"]
            /\ UNCHANGED <<reservations, autoRegisterPaths>>
       ELSE /\ crewResult' = [agent |-> p, action |-> action, error |-> ""]
            /\ reservations' =
                  CASE groupOf(action) = "reserve" -> afterReserve(p, <<"/", "x">>)
                    [] groupOf(action) = "release" -> afterRelease(p)
                    [] OTHER -> reservations
            /\ UNCHANGED autoRegisterPaths
    /\ UNCHANGED <<coreVars, deliverVars, pathVars, taskVars, crewVars, readerVars, extraVars, agentsCache, lastCall,
                   toolCalls, reservesStarted>>

\* some processes have joined, each under the name of its own, the others
\* have not; nobody has PI_AGENT_NAME set
InitRouter ==
    /\ alive = [p \in Procs |-> TRUE]
    /\ envName = [p \in Procs |-> ""]
    /\ registered \in [Procs -> BOOLEAN]
    /\ agentName = [p \in Procs |-> IF registered[p] THEN NameList[p] ELSE ""]
    /\ registry = [n \in {NameList[p] : p \in {q \in Procs : registered[q]}} |->
                     LET p == CHOOSE q \in Procs : NameList[q] = n
                     IN  [pid |-> p, sessionId |-> SessionOf(p)]]
    /\ InitIdle

\* the action join is executeJoin, which calls register; one process joins
\* during a behaviour, so that no registration races with another
NextRouter ==
    \/ \E p \in Procs, generated \in ThemeNames :
          regsStarted < MaxJoins /\ RegisterStart(p, generated)
    \/ \E p \in Procs : RegisterExists(p)
    \/ \E p \in Procs : RegisterWrite(p)
    \/ \E p \in Procs : RegisterVerify(p)
    \/ \E p \in Procs, action \in CrewActions, value \in AutoRegisterValues :
          CrewAction(p, action, value)

SpecRouter == InitRouter /\ [][NextRouter]_vars

\* C16: for a caller that has not joined, every action other than join and
\* autoRegisterPath returns not_registered and changes no persistent state
\* (registrations, names, inboxes, claims, completions, plan, reservations,
\* configuration).
NotRegisteredGate ==
    [][(/\ crewCalls' # crewCalls
        /\ ~registered[crewResult'.agent]
        /\ groupOf(crewResult'.action) \notin {"join", "autoRegisterPath"})
       => /\ crewResult'.error = "not_registered"
          /\ UNCHANGED <<procVars, swarmVars, planVars, msgVars, reservations,
                         autoRegisterPaths>>]_vars

\* a caller that has not joined asked for a reservation and was refused, while
\* another process holds one
NotRegisteredWitness ==
    /\ crewResult.action = <<"reserve">> /\ crewResult.error = "not_registered"
    /\ \E q \in Procs : reservations[q] # {}

(***************************************************************************)
(* src/crew/store.ts and src/crew/handlers/task.ts: the tasks of a plan.   *)
(* Task task-n is the number n; a handler runs from its first read to its   *)
(* last write without another handler in between.                          *)
(***************************************************************************)
\* the ids a caller may name, one beyond the tasks that can exist included
TaskNums == 1 .. MaxTasks + 1

\* getTask(cwd, id) !== null
taskExists(id) == id \in DOMAIN tasks

\* getTasks(cwd).filter(t => t.status === status), as ids
withStatus(ts, status) == {id \in DOMAIN ts : ts[id].status = status}

\* updateTask(cwd, id, {status})
updateTask(ts, id, status) == [ts EXCEPT ![id].status = status]

\* a task.create that accepts any dependency list
dependenciesFoundAlways(dependsOn) == TRUE

\* taskCreate: every id of params.dependsOn names an existing task
dependenciesFound(dependsOn) == \A depId \in dependsOn : taskExists(depId)

\* a handler returns an error and changes nothing
TaskRefused(error) ==
    /\ taskResult' = error
    /\ UNCHANGED <<tasks, plan>>

\* task.create: no_plan without a plan.json, dependency_not_found when a
\* dependency is missing; otherwise createTask writes the task under a fresh
\* id with status todo and adds one to plan.task_count
TaskCreate(dependsOn) ==
    /\ taskOps < MaxTaskOps
    /\ taskOps' = taskOps + 1
    /\ IF ~planExists THEN TaskRefused("no_plan")
       ELSE IF ~dependenciesFound(dependsOn)
       THEN /\ taskResult' = "dependency_not_found"
            /\ UNCHANGED <<tasks, plan>>
       ELSE /\ allocateTaskId <= MaxTasks
            /\ tasks' = [n \in DOMAIN tasks \cup {allocateTaskId} |->
                            IF n = allocateTaskId
                            THEN [status |-> "todo", depends_on |-> dependsOn]
                            ELSE tasks[n]]
            /\ plan' = [plan EXCEPT !.task_count = @ + 1]
            /\ taskResult' = ""
    /\ UNCHANGED nonTaskVars

\* a task.start that does not look at the dependencies
TaskStartIgnoresDependencies(id) ==
    /\ taskOps < MaxTaskOps
    /\ taskOps' = taskOps + 1
    /\ IF ~taskExists(id) THEN TaskRefused("not_found")
       ELSE IF tasks[id].status # "todo" THEN TaskRefused("invalid_status")
       ELSE /\ tasks' = updateTask(tasks, id, "in_progress")
            /\ taskResult' = ""
            /\ UNCHANGED plan
    /\ UNCHANGED nonTaskVars

\* task.start: the task must exist, be todo, and have no existing dependency
\* that is not done; startTask sets in_progress
TaskStart(id) ==
    /\ taskOps < MaxTaskOps
    /\ taskOps' = taskOps + 1
    /\ IF ~taskExists(id) THEN TaskRefused("not_found")
       ELSE IF tasks[id].status # "todo" THEN TaskRefused("invalid_status")
       ELSE IF \E depId \in tasks[id].depends_on :
                  taskExists(depId) /\ tasks[depId].status # "done"
       THEN TaskRefused("unmet_dependencies")
       ELSE /\ tasks' = updateTask(tasks, id, "in_progress")
            /\ taskResult' = ""
            /\ UNCHANGED plan
    /\ UNCHANGED nonTaskVars

\* task.done: the task must be in_progress; completeTask sets done and adds
\* one to plan.completed_count
TaskDone(id) ==
    /\ taskOps < MaxTaskOps
    /\ taskOps' = taskOps + 1
    /\ IF ~taskExists(id) THEN TaskRefused("not_found")
       ELSE IF tasks[id].status # "in_progress" THEN TaskRefused("invalid_status")
       ELSE /\ tasks' = updateTask(tasks, id, "done")
            /\ plan' = [plan EXCEPT !.completed_count = @ + 1]
            /\ taskResult' = ""
    /\ UNCHANGED nonTaskVars

\* task.block: blockTask sets blocked whatever the status was
TaskBlock(id) ==
    /\ taskOps < MaxTaskOps
    /\ taskOps' = taskOps + 1
    /\ IF ~taskExists(id) THEN TaskRefused("not_found")
       ELSE /\ tasks' = updateTask(tasks, id, "blocked")
            /\ taskResult' = ""
            /\ UNCHANGED plan
    /\ UNCHANGED nonTaskVars

\* task.unblock: the task must be blocked; unblockTask sets todo
TaskUnblock(id) ==
    /\ taskOps < MaxTaskOps
    /\ taskOps' = taskOps + 1
    /\ IF ~taskExists(id) THEN TaskRefused("not_found")
       ELSE IF tasks[id].status # "blocked" THEN TaskRefused("invalid_status")
       ELSE /\ tasks' = updateTask(tasks, id, "todo")
            /\ taskResult' = ""
            /\ UNCHANGED plan
    /\ UNCHANGED nonTaskVars

\* resetTask(cwd, id, cascade) on the task files ts: the task becomes todo, and
\* with cascade so does, in the order of the ids, every task that depends on
\* it and is not todo, together with its own dependents
RECURSIVE resetTask(_, _, _)
RECURSIVE resetDependents(_, _, _)
resetTask(ts, id, cascade) ==
    IF cascade THEN resetDependents(updateTask(ts, id, "todo"), id, DOMAIN ts)
    ELSE updateTask(ts, id, "todo")

\* the loop over allTasks, the tasks in rest still to be looked at
resetDependents(ts, id, rest) ==
    IF rest = {} THEN ts
    ELSE LET t == CHOOSE n \in rest : \A k \in rest : n <= k
         IN  IF id \in ts[t].depends_on /\ ts[t].status # "todo"
             THEN resetDependents(resetTask(ts, t, TRUE), id, rest \ {t})
             ELSE resetDependents(ts, id, rest \ {t})

\* task.reset: resetTask, whose calls that found a done task write the number
\* of done tasks to plan.completed_count when they return
TaskReset(id, cascade) ==
    /\ taskOps < MaxTaskOps
    /\ taskOps' = taskOps + 1
    /\ IF ~taskExists(id) THEN TaskRefused("not_found")
       ELSE /\ tasks' = resetTask(tasks, id, cascade)
            /\ plan' = IF withStatus(tasks, "done") # withStatus(tasks', "done")
                       THEN [plan EXCEPT !.completed_count =
                                Cardinality(withStatus(tasks', "done"))]
                       ELSE plan
            /\ taskResult' = ""
    /\ UNCHANGED nonTaskVars

\* getReadyTasks that leaves the dependencies aside
getReadyTasksAnyTodo == withStatus(tasks, "todo")

\* getReadyTasks: the todo tasks all of whose dependencies are among doneIds
getReadyTasks ==
    LET doneIds == withStatus(tasks, "done")
    IN  {id \in withStatus(tasks, "todo") : tasks[id].depends_on \subseteq doneIds}

\* validatePlan's hasCycle(taskId) with recursionStack: the task is on the
\* stack, or one of its dependencies leads back onto the stack extended by it
RECURSIVE hasCycle(_, _)
hasCycle(taskId, recursionStack) ==
    \/ taskId \in recursionStack
    \/ /\ taskExists(taskId)
       /\ \E depId \in tasks[taskId].depends_on :
             hasCycle(depId, recursionStack \cup {taskId})

\* the tasks validatePlan reports "Circular dependency detected" for
circularErrors == {id \in DOMAIN tasks : hasCycle(id, {})}

\* the warnings of validatePlan about the counts of the plan
countWarnings ==
    {w \in {"task_count", "completed_count"} :
        \/ w = "task_count" /\ plan.task_count # Cardinality(DOMAIN tasks)
        \/ w = "completed_count"
           /\ plan.completed_count # Cardinality(withStatus(tasks, "done"))}

\* a plan has just been created
InitTasks ==
    /\ InitJoined /\ envName = [p \in Procs |-> ""]
    /\ InitSwarmIdle /\ InitRegIdle /\ InitMsgIdle
    /\ InitDeliverIdle /\ InitPathIdle /\ InitGuardIdle /\ InitRouterIdle /\ InitCrewIdle /\ InitReaderIdle /\ InitExtraIdle
    /\ planLock = NoLock
    /\ planPc = [p \in Procs |-> "idle"]
    /\ planTries = [p \in Procs |-> 0]
    /\ plansStarted = 0
    /\ planResult = [p \in Procs |-> NoPlanResult]
    /\ planExists = TRUE
    /\ \E prdPath \in PrdPaths : plan = createPlan(prdPath)
    /\ tasks = NoTasks
    /\ taskResult = ""
    /\ taskOps = 0

NextTasks ==
    \/ \E dependsOn \in SUBSET TaskNums : TaskCreate(dependsOn)
    \/ \E id \in TaskNums : TaskStart(id)
    \/ \E id \in TaskNums : TaskDone(id)
    \/ \E id \in TaskNums : TaskBlock(id)
    \/ \E id \in TaskNums : TaskUnblock(id)
    \/ \E id \in TaskNums, cascade \in BOOLEAN : TaskReset(id, cascade)

SpecTasks == InitTasks /\ [][NextTasks]_vars

\* C17: after any sequence of start, done, block, unblock and reset the ready
\* set is the set of the todo tasks whose every depends_on id refers to a done
\* task.
ReadyIsTodoWithDoneDependencies ==
    \A id \in DOMAIN tasks :
        id \in getReadyTasks <=>
            /\ tasks[id].status = "todo"
            /\ \A depId \in tasks[id].depends_on :
                  taskExists(depId) /\ tasks[depId].status = "done"

\* one task is ready because its dependency is done, another is todo and not
\* ready because its dependency is not done
ReadyWitness ==
    \E a, b \in DOMAIN tasks :
        /\ tasks[a].depends_on # {} /\ a \in getReadyTasks
        /\ tasks[b].status = "todo" /\ b \notin getReadyTasks
        /\ \E depId \in tasks[b].depends_on :
              taskExists(depId) /\ tasks[depId].status \in {"todo", "blocked"}

\* the tasks reachable from the tasks of ids along depends_on in at most n steps
RECURSIVE dependenciesWithin(_, _)
dependenciesWithin(ids, n) ==
    IF n = 0 THEN ids
    ELSE dependenciesWithin(
             ids \cup UNION {tasks[id].depends_on : id \in ids \cap DOMAIN tasks}, n - 1)

\* task id depends, directly or through other tasks, on itself
onCycle(id) == id \in dependenciesWithin(tasks[id].depends_on, MaxTasks + 1)

\* C18: after any sequence of task.create calls, succeeding or failing with
\* dependency_not_found, no task depends on itself through the depends_on
\* lists, and validatePlan reports no circular dependency.
NoDependencyCycle ==
    /\ \A id \in DOMAIN tasks : ~onCycle(id)
    /\ circularErrors = {}

\* all the tasks have been created, one of them depending on two others, and
\* the latest task.create failed with dependency_not_found
CreateWitness ==
    /\ Cardinality(DOMAIN tasks) = MaxTasks
    /\ \E id \in DOMAIN tasks : Cardinality(tasks[id].depends_on) = 2
    /\ taskResult = "dependency_not_found"

\* C19: after any sequence of lifecycle transitions plan.task_count is the
\* number of tasks and plan.completed_count is the number of done tasks, and
\* validatePlan has nothing to warn about.
PlanCountsMatchTasks ==
    /\ plan.task_count = Cardinality(DOMAIN tasks)
    /\ plan.completed_count = Cardinality(withStatus(tasks, "done"))
    /\ countWarnings = {}

(***************************************************************************)
(* src/crew/agents.ts spawnAgents, src/crew/handlers/work.ts, the          *)
(* agent_end hook of src/index.ts and crew/state.ts: a plan action runs    *)
(* its scouts and writes the tasks, then work calls run waves of workers   *)
(***************************************************************************)
\* the concurrency of a call: concurrency.scouts, concurrency.workers or
\* params.concurrency
Concurrencies == 1 .. MaxConcurrency

\* the task graphs a plan action writes: tasks 1 .. n, all todo, depending on
\* earlier tasks
TaskGraphs ==
    UNION {{[i \in 1 .. n |-> [status |-> "todo", depends_on |-> deps[i]]] :
               deps \in {d \in [1 .. n -> SUBSET (1 .. n)] : \A i \in 1 .. n : d[i] \subseteq 1 .. i - 1}} :
           n \in 1 .. MaxTasks}

\* the element of the list tasks.map(...) at index i - 1, the tasks in the
\* order of their ids
taskAt(S, i) == CHOOSE x \in S : Cardinality({y \in S : y < x}) = i - 1

\* a work call that hands every ready task to the workers
sliceAll(S, n) == S

\* readyTasks.slice(0, concurrency)
slice(S, n) == {x \in S : Cardinality({y \in S : y < x}) < n}

\* a loop that starts one agent too many
mayStartOneMore(n, c) == n <= c

\* spawnAgents: running.length < concurrency
mayStart(n, c) == n < c

\* startAutonomous(cwd)
startAutonomous == [active |-> TRUE, waveNumber |-> 1, waveHistory |-> 0, stopReason |-> ""]

\* stopAutonomous(reason)
stopAutonomous(st, reason) == [st EXCEPT !.active = FALSE, !.stopReason = reason]

\* addWaveResult(result)
addWaveResult(st) == [st EXCEPT !.waveNumber = @ + 1, !.waveHistory = @ + 1]

\* an agent_end hook that never finds the limit reached
maxWavesReachedNever(st, limit) == FALSE

\* agent_end: autonomousState.waveNumber >= crewConfig.work.maxWaves
maxWavesReached(st, limit) == st.waveNumber >= limit

\* the inner loop of spawnAgents: queue.shift() and runAgent, which spawns the
\* child process
SpawnStart ==
    /\ workPc \in {"scouts", "wave"}
    /\ queue # {} /\ mayStart(Cardinality(running), concurrency)
    /\ queue' = queue \ {taskAt(queue, 1)}
    /\ running' = running \cup {taskAt(queue, 1)}
    /\ UNCHANGED <<nonCrewVars, taskVars, autonomousState, maxWaves, workPc, waveAutonomous,
                   concurrency, tasksToRun, results, grandchildren>>

\* a child process closes while the loop awaits Promise.race(running): the
\* callback pushes its result and takes it out of running
AgentCloses(t, exitCode) ==
    /\ workPc \in {"scouts", "wave"}
    /\ t \in running
    /\ ~(queue # {} /\ mayStart(Cardinality(running), concurrency))
    /\ running' = running \ {t}
    /\ results' = Append(results, [exitCode |-> exitCode, task |-> t])
    /\ UNCHANGED <<nonCrewVars, taskVars, autonomousState, maxWaves, workPc, waveAutonomous,
                   concurrency, tasksToRun, queue, grandchildren>>

\* the plan action after its scouts: all scouts failed, or the analyst failed,
\* and the plan is deleted; otherwise the analyst's tasks are created
ScoutsReturn(graph, analystOk) ==
    /\ workPc = "scouts"
    /\ queue = {} /\ running = {}
    /\ IF (\A i \in 1 .. Len(results) : results[i].exitCode # 0) \/ ~analystOk
       THEN /\ planExists' = deletePlan.exists
            /\ plan' = deletePlan.plan
            /\ tasks' = deletePlan.tasks
            /\ workPc' = "failed"
       ELSE /\ tasks' = graph
            /\ plan' = [plan EXCEPT !.task_count = Cardinality(DOMAIN graph)]
            /\ workPc' = "idle"
            /\ UNCHANGED planExists
    /\ results' = <<>>
    /\ UNCHANGED <<procVars, swarmVars, regVars, msgVars, deliverVars, pathVars, guardVars,
                   routerVars, planLock, planPc, planTries, plansStarted, planResult,
                   taskResult, taskOps, autonomousState, maxWaves, waveAutonomous,
                   concurrency, tasksToRun, queue, running, grandchildren, readerVars, extraVars>>

\* the work action up to await spawnAgents: without a plan or without ready
\* tasks it returns; otherwise it takes the first ready tasks, starts the
\* autonomous run if asked to and not active, and hands the tasks to spawnAgents.
\* A work call that follows the steer of agent_end is autonomous
WorkCall(autonomous, c) ==
    /\ workPc \in {"idle", "steered"}
    /\ workPc = "steered" => autonomous
    /\ IF ~planExists \/ getReadyTasks = {}
       THEN /\ workPc' = "agent_end"
            /\ UNCHANGED <<autonomousState, waveAutonomous, concurrency, tasksToRun, queue,
                           running, results>>
       ELSE /\ tasksToRun' = slice(getReadyTasks, c)
            /\ queue' = slice(getReadyTasks, c)
            /\ running' = {}
            /\ results' = <<>>
            /\ concurrency' = c
            /\ waveAutonomous' = autonomous
            /\ autonomousState' = IF autonomous /\ ~autonomousState.active
                                  THEN startAutonomous ELSE autonomousState
            /\ workPc' = "wave"
    /\ UNCHANGED <<nonCrewVars, taskVars, maxWaves, grandchildren>>

\* a worker of the wave calls task.start on its task
WorkerStarts(t) ==
    /\ workPc = "wave" /\ t \in running
    /\ taskExists(t) /\ tasks[t].status = "todo"
    /\ TaskStart(t)

\* a worker of the wave calls task.done on the task it has started
WorkerCompletes(t) ==
    /\ workPc = "wave" /\ t \in running
    /\ taskExists(t) /\ tasks[t].status = "in_progress"
    /\ TaskDone(t)

\* a worker of the wave calls task.block on the task it has started
WorkerBlocks(t) ==
    /\ workPc = "wave" /\ t \in running
    /\ taskExists(t) /\ tasks[t].status = "in_progress"
    /\ TaskBlock(t)

\* a worker, which has joined the mesh like any agent, calls the work action
\* itself: executeCrewAction routes it to the handler, which spawns a worker
\* for a ready task
WorkerCallsWork(t) ==
    /\ workPc = "wave" /\ t \in running
    /\ planExists /\ getReadyTasks # {}
    /\ grandchildren < MaxGrandchildren
    /\ grandchildren' = grandchildren + 1
    /\ UNCHANGED <<nonCrewVars, taskVars, autonomousState, maxWaves, workPc, waveAutonomous,
                   concurrency, tasksToRun, queue, running, results>>

\* the tasks the work action blocks after the wave: result i is read as the
\* result of task i of the wave, and a task in_progress with a failed result is
\* blocked in autonomous mode
autoBlocked ==
    {taskAt(tasksToRun, i) :
        i \in {j \in 1 .. Len(results) :
                  /\ results[j].exitCode # 0 /\ waveAutonomous
                  /\ taskExists(taskAt(tasksToRun, j))
                  /\ tasks[taskAt(tasksToRun, j)].status = "in_progress"}}

\* the work action after await spawnAgents: it blocks failed tasks, and in
\* autonomous mode adds the wave result and stops the run with completed when
\* all tasks are done, with blocked when all are blocked or done or none is ready
WaveFinish ==
    /\ workPc = "wave"
    /\ queue = {} /\ running = {}
    /\ tasks' = [n \in DOMAIN tasks |->
                    IF n \in autoBlocked THEN [tasks[n] EXCEPT !.status = "blocked"]
                    ELSE tasks[n]]
    /\ autonomousState' =
          IF ~waveAutonomous THEN autonomousState
          ELSE IF \A n \in DOMAIN tasks' : tasks'[n].status = "done"
          THEN stopAutonomous(addWaveResult(autonomousState), "completed")
          ELSE IF \/ \A n \in DOMAIN tasks' : tasks'[n].status \in {"done", "blocked"}
                  \/ getReadyTasks' = {}
          THEN stopAutonomous(addWaveResult(autonomousState), "blocked")
          ELSE addWaveResult(autonomousState)
    /\ workPc' = "agent_end"
    /\ tasksToRun' = {}
    /\ results' = <<>>
    /\ waveAutonomous' = FALSE
    /\ UNCHANGED <<nonCrewVars, plan, taskResult, taskOps, maxWaves, concurrency, queue,
                   running, grandchildren>>

\* pi.on("agent_end"): nothing for an inactive run; a run at its wave limit is
\* stopped with manual, a run without ready tasks with completed or blocked;
\* otherwise the steer message makes the agent call work again
AgentEnd ==
    /\ workPc = "agent_end"
    /\ IF ~autonomousState.active
       THEN /\ workPc' = "idle"
            /\ UNCHANGED autonomousState
       ELSE IF maxWavesReached(autonomousState, maxWaves)
       THEN /\ autonomousState' = stopAutonomous(autonomousState, "manual")
            /\ workPc' = "idle"
       ELSE IF getReadyTasks = {}
       THEN /\ autonomousState' =
                  stopAutonomous(autonomousState,
                      IF \A n \in DOMAIN tasks : tasks[n].status = "done"
                      THEN "completed" ELSE "blocked")
            /\ workPc' = "idle"
       ELSE /\ workPc' = "steered"
            /\ UNCHANGED autonomousState
    /\ UNCHANGED <<nonCrewVars, taskVars, maxWaves, waveAutonomous, concurrency, tasksToRun,
                   queue, running, results, grandchildren>>

\* a plan action has created the plan and is about to run its scouts
InitCrew ==
    /\ InitJoined /\ envName = [p \in Procs |-> ""]
    /\ InitSwarmIdle /\ InitRegIdle /\ InitMsgIdle
    /\ InitDeliverIdle /\ InitPathIdle /\ InitGuardIdle /\ InitRouterIdle
    /\ planLock = NoLock
    /\ planPc = [p \in Procs |-> "idle"]
    /\ planTries = [p \in Procs |-> 0]
    /\ plansStarted = 0
    /\ planResult = [p \in Procs |-> NoPlanResult]
    /\ planExists = TRUE
    /\ plan = createPlan("PRD.md")
    /\ tasks = NoTasks
    /\ taskResult = ""
    /\ taskOps = 0
    /\ autonomousState = NoAutonomous
    /\ maxWaves \in 1 .. MaxWaveLimit
    /\ workPc = "scouts"
    /\ waveAutonomous = FALSE
    /\ concurrency \in Concurrencies
    /\ tasksToRun = {}
    /\ queue \in {1 .. n : n \in 1 .. MaxScouts}
    /\ running = {}
    /\ results = <<>>
    /\ grandchildren = 0
    /\ InitReaderIdle /\ InitExtraIdle

NextCrew ==
    \/ SpawnStart
    \/ \E t \in 1 .. MaxTasks, exitCode \in {0, 1} : AgentCloses(t, exitCode)
    \/ \E graph \in TaskGraphs, analystOk \in BOOLEAN : ScoutsReturn(graph, analystOk)
    \/ \E autonomous \in BOOLEAN, c \in Concurrencies : WorkCall(autonomous, c)
    \/ \E t \in 1 .. MaxTasks : WorkerStarts(t)
    \/ \E t \in 1 .. MaxTasks : WorkerCompletes(t)
    \/ \E t \in 1 .. MaxTasks : WorkerBlocks(t)
    \/ \E t \in 1 .. MaxTasks : WorkerCallsWork(t)
    \/ WaveFinish
    \/ AgentEnd

SpecCrew == InitCrew /\ [][NextCrew]_vars

\* C22: after an autonomous wave that leaves some task not done, the run is
\* stopped with reason blocked exactly when no task is ready and no task is in
\* progress; after a wave that leaves every task done it is stopped with
\* reason completed.
BlockedIffNothingCanRun ==
    [][(workPc = "wave" /\ workPc' = "agent_end" /\ waveAutonomous) =>
          LET allDone == \A n \in DOMAIN tasks' : tasks'[n].status = "done"
              stoppedWith(r) == ~autonomousState'.active /\ autonomousState'.stopReason = r
          IN  /\ allDone => stoppedWith("completed")
              /\ ~allDone =>
                    (stoppedWith("blocked") <=>
                        (getReadyTasks' = {} /\ withStatus(tasks', "in_progress") = {}))]_vars

ConcurrencyCapped ==
    /\ Cardinality(running) <= concurrency
    /\ workPc = "wave" => Cardinality(tasksToRun) <= concurrency

\* as many scouts run as the cap allows while another one waits in the queue
ConcurrencyWitness ==
    /\ workPc = "scouts"
    /\ Cardinality(running) = concurrency
    /\ queue # {}
    /\ Len(results) > 0

\* C25: a crew child never spawns crew child agents.
NoRecursion == grandchildren = 0

(***************************************************************************)
(* src/store.ts: the readers of the registry, getActiveAgents and          *)
(* validateTargetAgent, and the cleanup they do for a registration whose   *)
(* pid is dead.  The session id of a process is the one its host's         *)
(* sessionManager hands out: a session that is resumed in a new process    *)
(* keeps its id.                                                           *)
(***************************************************************************)
Sessions == 1 .. NumSessions

\* the processes that are alive and run session s
liveWith(s) == {q \in Procs : alive[q] /\ stateSessionId[q] = s}

\* register by a process that has not joined: state.sessionId is the id of a
\* new session or of a session whose process is gone; the name is one that
\* findAvailableName or the explicit-name check accepts; the file found under
\* it is unlinked, the inbox directory made and the registration written
ReaderRegister(p, name, s) ==
    /\ alive[p] /\ ~registered[p] /\ stateSessionId[p] = 0
    /\ readerPc[p] = "idle"
    /\ liveWith(s) = {}
    /\ ~nameInUse(name, p)
    /\ stateSessionId' = [stateSessionId EXCEPT ![p] = s]
    /\ agentName' = [agentName EXCEPT ![p] = name]
    /\ inboxDirs' = inboxDirs \cup {s}
    /\ registry' = writeReg(name, [pid |-> p, sessionId |-> s])
    /\ registered' = [registered EXCEPT ![p] = TRUE]
    /\ UNCHANGED <<nonReaderVars, alive, readerPc, readerFile, readerReg, reads>>

\* what a reader does with the registration it parsed from <file>.json: a dead
\* pid starts the cleanup, a live one is returned
readRegistration(p, file) ==
    /\ reads < MaxReads
    /\ reads' = reads + 1
    /\ IF ~isProcessAlive(regFile(file).pid)
       THEN /\ readerPc' = [readerPc EXCEPT ![p] = "unlink"]
            /\ readerFile' = [readerFile EXCEPT ![p] = file]
            /\ readerReg' = [readerReg EXCEPT ![p] = regFile(file)]
       ELSE UNCHANGED <<readerPc, readerFile, readerReg>>
    /\ UNCHANGED <<nonReaderVars, procVars, stateSessionId, inboxDirs>>

\* getActiveAgents: one pass of the loop over the files of the registry
GetActiveAgents(p, file) ==
    /\ alive[p] /\ registered[p] /\ readerPc[p] = "idle"
    /\ file \in DOMAIN registry
    /\ readRegistration(p, file)

\* validateTargetAgent(to): existsSync, readFileSync, isProcessAlive
ValidateTargetAgent(p, to) ==
    /\ alive[p] /\ registered[p] /\ readerPc[p] = "idle"
    /\ isValidAgentName(to) /\ to # agentName[p]
    /\ regFile(to) # NoReg
    /\ readRegistration(p, to)

\* fs.unlinkSync of the registration path: removes whatever file is there now
ReaderUnlink(p) ==
    /\ alive[p] /\ readerPc[p] = "unlink"
    /\ registry' = unlinkReg(readerFile[p])
    /\ readerPc' = [readerPc EXCEPT ![p] = "rmdir"]
    /\ UNCHANGED <<nonReaderVars, alive, agentName, registered, stateSessionId, inboxDirs,
                   readerFile, readerReg, reads>>

\* safeRmDir(join(dirs.inbox, reg.sessionId))
ReaderRmDir(p) ==
    /\ alive[p] /\ readerPc[p] = "rmdir"
    /\ inboxDirs' = inboxDirs \ {readerReg[p].sessionId}
    /\ readerPc' = [readerPc EXCEPT ![p] = "idle"]
    /\ readerFile' = [readerFile EXCEPT ![p] = ""]
    /\ readerReg' = [readerReg EXCEPT ![p] = NoReg]
    /\ UNCHANGED <<nonReaderVars, procVars, stateSessionId, reads>>

\* session_shutdown: unregister unlinks the process's own registration and
\* removes its own inbox directory, and the process ends
ReaderShutdown(p) ==
    /\ alive[p] /\ registered[p] /\ readerPc[p] = "idle"
    /\ Cardinality({q \in Procs : ~alive[q]}) < MaxCrashes
    /\ registry' = unlinkReg(agentName[p])
    /\ inboxDirs' = inboxDirs \ {stateSessionId[p]}
    /\ registered' = [registered EXCEPT ![p] = FALSE]
    /\ alive' = [alive EXCEPT ![p] = FALSE]
    /\ UNCHANGED <<nonReaderVars, agentName, stateSessionId, readerPc, readerFile, readerReg, reads>>

\* the OS process dies wherever it is; its registration and its inbox stay
ReaderCrash(p) ==
    /\ alive[p] /\ registered[p]
    /\ Cardinality({q \in Procs : ~alive[q]}) < MaxCrashes
    /\ alive' = [alive EXCEPT ![p] = FALSE]
    /\ readerPc' = [readerPc EXCEPT ![p] = "idle"]
    /\ readerFile' = [readerFile EXCEPT ![p] = ""]
    /\ readerReg' = [readerReg EXCEPT ![p] = NoReg]
    /\ UNCHANGED <<nonReaderVars, registry, agentName, registered, stateSessionId, inboxDirs, reads>>

\* processes that have not joined; no registration and no inbox directory
InitReaders ==
    /\ alive = [p \in Procs |-> TRUE]
    /\ envName = [p \in Procs |-> ""]
    /\ agentName = envName
    /\ registered = [p \in Procs |-> FALSE]
    /\ registry = NoFiles
    /\ InitIdle

NextReaders ==
    \/ \E p \in Procs, name \in ThemeNames, s \in Sessions : ReaderRegister(p, name, s)
    \/ \E p \in Procs, file \in Names : GetActiveAgents(p, file)
    \/ \E p \in Procs, to \in Names : ValidateTargetAgent(p, to)
    \/ \E p \in Procs : ReaderUnlink(p)
    \/ \E p \in Procs : ReaderRmDir(p)
    \/ \E p \in Procs : ReaderShutdown(p)
    \/ \E p \in Procs : ReaderCrash(p)

SpecReaders == InitReaders /\ [][NextReaders]_vars

\* the registrations of live processes, as the files show them
liveRegistrations == {n \in DOMAIN registry : isProcessAlive(registry[n].pid)}

\* C28: the cleanup of a reader removes a registration file only when its pid
\* is dead, and an inbox directory only when no registration of a live process
\* names its session id.
ReadersRemoveOnlyDead ==
    [][\A p \in Procs :
          (alive'[p] /\ readerPc[p] \in {"unlink", "rmdir"} /\ readerPc'[p] # readerPc[p]) =>
              /\ \A n \in DOMAIN registry \ DOMAIN registry' : n \notin liveRegistrations
              /\ \A s \in inboxDirs \ inboxDirs' :
                    \A n \in liveRegistrations : registry[n].sessionId # s]_vars

(***************************************************************************)
(* Renaming while holding a claim: executeRename of src/lib.ts next to the *)
(* swarm operations of src/store.ts.  The tool calls of one process run    *)
(* one after the other, so a process renames only between two of its swarm *)
(* operations; no process dies, so no lock gets old.                       *)
(***************************************************************************)
InitRenameClaim ==
    /\ InitJoined /\ envName = [p \in Procs |-> ""]
    /\ InitIdle

NextRenameClaim ==
    \/ \E p \in Procs : regPc[p] = "idle" /\ StartOp(p)
    \/ \E p \in Procs : LockRetry(p)
    \/ \E p \in Procs : LockWrite(p)
    \/ \E p \in Procs, kind \in {"claim", "unclaim", "complete"}, slot \in Slots : CsRead(p, kind, slot)
    \/ \E p \in Procs : CsWriteCompletions(p)
    \/ \E p \in Procs : CsWriteClaims(p)
    \/ \E p \in Procs : LockRelease(p)
    \/ \E p \in Procs, name \in RenameNames :
          pc[p] = "idle" /\ regsStarted < MaxRenames /\ RenameStart(p, name)
    \/ \E p \in Procs : RenameDrain(p)
    \/ \E p \in Procs : RenameWrite(p)
    \/ \E p \in Procs : RenameVerify(p)
    \/ \E p \in Procs : RenameRaceLost(p)
    \/ \E p \in Procs : RenameUnlinkOld(p)
    \/ \E p \in Procs : RenameStartWatcher(p)

SpecRenameClaim == InitRenameClaim /\ [][NextRenameClaim]_vars

\* the claims in claims.json that process p wrote in its session, while p is
\* alive, registered and not inside a rename
heldBy(p) ==
    {s \in Slots : /\ claims[s] # NoClaim
                   /\ claims[s].pid = p /\ claims[s].sessionId = SessionOf(p)
                   /\ alive[p] /\ registered[p] /\ regPc[p] = "idle"}

\* C30: the claim of a live registered agent, renamed or not, is not stale,
\* is found by findAgentClaim under the agent's current name (so that a
\* further claim is refused with already_have_claim), and an unclaim or a
\* complete of it by the agent is not refused as not_claimed or
\* not_your_claim.
ClaimSurvivesRename ==
    \A p \in Procs : \A s \in heldBy(p) :
        /\ ~isClaimStale(claims[s])
        /\ findAgentClaim(cleanupStaleClaims(claims), agentName[p]) # NoSlot
        /\ unclaimTask(p, s).result.kind = "success"
        /\ completeTask(p, s).result.kind \in {"success", "already_completed"}

(***************************************************************************)
(* The catch block of the scan's loop body: files that cannot be read or   *)
(* parsed, and a .deadletter directory the file cannot be moved into        *)
(***************************************************************************)
\* a catch block that leaves the file where it is when the move fails
quarantinedLeavesFile(moved) == IF moved THEN "deadletter" ELSE "inbox"

\* catch { renameSync(msgPath, deadletter/...) } catch { unlinkSync(msgPath) }:
\* where the file is after the catch block
quarantined(moved) == IF moved THEN "deadletter" ELSE "deleted"

\* fs.readFileSync or JSON.parse throws for a file that is in the inbox (it
\* was not written by sendMessageToAgent): deliverFn is not called
ScanReadThrows(p) ==
    /\ alive[p] /\ msgPc[p] = "scan_deliver"
    /\ msgFile[Current(p)] = "inbox"
    /\ msgPc' = [msgPc EXCEPT ![p] = "scan_quarantine"]
    /\ UNCHANGED <<nonMsgVars, procVars, msgFile, msgTo, delivered, deliveredOk, deliveryOrder,
                   sending, files, index, isProcessingMessages, pendingProcessArgs>>

\* the catch block of the loop body: ensureDirSync(.deadletter) and renameSync
\* move the file (moved), or one of them throws and the file is unlinked
ScanCatch(p, moved) ==
    /\ alive[p] /\ msgPc[p] = "scan_quarantine"
    /\ msgFile' = [msgFile EXCEPT ![Current(p)] = IF @ = "inbox" THEN quarantined(moved) ELSE @]
    /\ ScanNext(p)
    /\ UNCHANGED <<nonMsgVars, procVars, msgTo, delivered, deliveredOk, deliveryOrder, sending>>

NextQuarantine ==
    \/ \E p \in Procs, name \in Names : SendStart(p, name)
    \/ \E p \in Procs : SendWrite(p)
    \/ \E p \in Procs : SendRename(p)
    \/ \E p \in Procs : ScanStart(p)
    \/ \E p \in Procs : ScanAgain(p)
    \/ \E p \in Procs, ok \in BOOLEAN, reenters \in BOOLEAN : ScanDeliver(p, ok, reenters)
    \/ \E p \in Procs : ScanReadThrows(p)
    \/ \E p \in Procs : ScanUnlink(p)
    \/ \E p \in Procs, moved \in BOOLEAN : ScanCatch(p, moved)
    \/ \E p \in Procs : MsgShutdown(p)
    \/ \E p \in Procs : MsgCrash(p)

SpecQuarantine == InitMsg /\ [][NextQuarantine]_vars

\* the files a running scan has still to process
Remaining(p) == {files[p][i] : i \in index[p] + 2 .. Len(files[p])}

ScanSteps(p) ==
    \/ ScanAgain(p)
    \/ \E ok \in BOOLEAN, reenters \in BOOLEAN : ScanDeliver(p, ok, reenters)
    \/ ScanReadThrows(p)
    \/ ScanUnlink(p)
    \/ \E moved \in BOOLEAN : ScanCatch(p, moved)

SpecScans == SpecQuarantine /\ \A p \in Procs : WF_vars(ScanSteps(p))

\* process p is inside the loop of a scan
Scanning(p) == msgPc[p] \in {"scan_deliver", "scan_unlink", "scan_quarantine"}

watchState(p) ==
    [watcher |-> watcher[p], watcherRetries |-> watcherRetries[p],
     watcherRetryTimer |-> watcherRetryTimer[p], pollTimer |-> pollTimer[p],
     retryDelay |-> retryDelay[p]]

\* the assignment of a changed state back to the process
setWatchState(p, st) ==
    /\ watcher' = [watcher EXCEPT ![p] = st.watcher]
    /\ watcherRetries' = [watcherRetries EXCEPT ![p] = st.watcherRetries]
    /\ watcherRetryTimer' = [watcherRetryTimer EXCEPT ![p] = st.watcherRetryTimer]
    /\ pollTimer' = [pollTimer EXCEPT ![p] = st.pollTimer]
    /\ retryDelay' = [retryDelay EXCEPT ![p] = st.retryDelay]

RECURSIVE pow2(_)
pow2(n) == IF n = 0 THEN 1 ELSE 2 * pow2(n - 1)

min(a, b) == IF a < b THEN a ELSE b

\* Math.min(1000 * Math.pow(2, watcherRetries - 1), 30000)
delay(retries) == min(1000 * pow2(retries - 1), MAX_RETRY_DELAY_MS)

\* if (state.pollTimer) return; state.pollTimer = setInterval(..., 1500)
startPolling(st) == [st EXCEPT !.pollTimer = TRUE]

\* clearInterval(state.pollTimer)
stopPolling(st) == [st EXCEPT !.pollTimer = FALSE]

\* a retry is scheduled after one retry more than the limit
retryAllowedOneMore(retries) == retries <= MAX_WATCHER_RETRIES

\* if (state.watcherRetries < MAX_WATCHER_RETRIES) in scheduleRetry
retryAllowed(retries) == retries < MAX_WATCHER_RETRIES

\* scheduleRetry(): count the failure; schedule startWatcher after the delay,
\* or start polling when the retries are used up
scheduleRetry(st) ==
    LET retries == st.watcherRetries + 1
    IN  IF retryAllowed(retries)
        THEN [st EXCEPT !.watcherRetries = retries, !.watcherRetryTimer = TRUE,
                        !.retryDelay = delay(retries)]
        ELSE startPolling([st EXCEPT !.watcherRetries = retries])

\* stopWatcher: clear the retry timer, close the watcher, stop polling
stopWatcher(st) ==
    stopPolling([st EXCEPT !.watcherRetryTimer = FALSE, !.watcher = FALSE])

\* a startWatcher that leaves a polling loop of an earlier fallback running
startWatcherKeepsPolling(st, watchOk) ==
    IF st.watcher THEN st
    ELSE IF st.watcherRetries >= MAX_WATCHER_RETRIES THEN startPolling(st)
    ELSE IF watchOk THEN [st EXCEPT !.watcher = TRUE, !.watcherRetries = 0]
    ELSE scheduleRetry(st)

\* startWatcher of a registered process: nothing when a watcher runs; polling
\* when the retries are used up; else stop polling, scan, and fs.watch, which
\* returns a watcher (watchOk) and resets the counter, or throws
startWatcher(st, watchOk) ==
    IF st.watcher THEN st
    ELSE IF st.watcherRetries >= MAX_WATCHER_RETRIES THEN startPolling(st)
    ELSE IF watchOk THEN [stopPolling(st) EXCEPT !.watcher = TRUE, !.watcherRetries = 0]
    ELSE scheduleRetry(stopPolling(st))

\* the join of a process (store.register succeeded): startWatcher
WatcherJoin(p, watchOk) ==
    /\ alive[p] /\ registered[p]
    /\ ~watcher[p] /\ ~watcherRetryTimer[p] /\ ~pollTimer[p] /\ watcherRetries[p] = 0
    /\ setWatchState(p, startWatcher(watchState(p), watchOk))
    /\ UNCHANGED nonWatchVars

\* the watcher emits "error": stopWatcher(state); scheduleRetry()
WatcherError(p) ==
    /\ alive[p] /\ registered[p] /\ watcher[p]
    /\ setWatchState(p, scheduleRetry(stopWatcher(watchState(p))))
    /\ UNCHANGED nonWatchVars

\* the retry timer fires: state.watcherRetryTimer = null; startWatcher(...)
RetryTimerFires(p, watchOk) ==
    /\ alive[p] /\ registered[p] /\ watcherRetryTimer[p]
    /\ setWatchState(p, startWatcher([watchState(p) EXCEPT !.watcherRetryTimer = FALSE], watchOk))
    /\ UNCHANGED nonWatchVars

\* recoverWatcherIfNeeded(), called on session_switch, session_fork and turn_end
recoverWatcherIfNeeded(st, watchOk) ==
    IF ~st.watcher /\ ~st.watcherRetryTimer
    THEN startWatcher([st EXCEPT !.watcherRetries = 0], watchOk)
    ELSE st

RecoverWatcher(p, watchOk) ==
    /\ alive[p] /\ registered[p]
    /\ setWatchState(p, recoverWatcherIfNeeded(watchState(p), watchOk))
    /\ UNCHANGED nonWatchVars

\* executeRename: stopWatcher; renameAgent fails (startWatcher) or succeeds
\* (state.watcherRetries = 0; startWatcher)
ExecuteRename(p, success, watchOk) ==
    /\ alive[p] /\ registered[p]
    /\ LET stopped == stopWatcher(watchState(p))
       IN  setWatchState(p, IF success
                            THEN startWatcher([stopped EXCEPT !.watcherRetries = 0], watchOk)
                            ELSE startWatcher(stopped, watchOk))
    /\ UNCHANGED nonWatchVars

InitWatch == InitJoined /\ envName = [p \in Procs |-> ""] /\ InitIdle

NextWatch ==
    \/ \E p \in Procs, watchOk \in BOOLEAN : WatcherJoin(p, watchOk)
    \/ \E p \in Procs : WatcherError(p)
    \/ \E p \in Procs, watchOk \in BOOLEAN : RetryTimerFires(p, watchOk)
    \/ \E p \in Procs, watchOk \in BOOLEAN : RecoverWatcher(p, watchOk)
    \/ \E p \in Procs, success \in BOOLEAN, watchOk \in BOOLEAN : ExecuteRename(p, success, watchOk)

SpecWatch == InitWatch /\ [][NextWatch]_vars

\* C33: the counter of consecutive watcher failures never passes
\* MAX_WATCHER_RETRIES; when it has reached that number no retry is scheduled
\* and the polling loop runs; a scheduled retry follows failure number 1 to 4
\* with a delay of 1000 * 2^(failures - 1) ms, which doubles from one failure
\* to the next and never exceeds 30 s; and a step that counts a failure
\* schedules a retry exactly when fewer than MAX_WATCHER_RETRIES are counted.
WatcherRetriesCapped ==
    [][\A p \in Procs :
          /\ watcherRetries'[p] <= MAX_WATCHER_RETRIES
          /\ watcherRetries'[p] = MAX_WATCHER_RETRIES =>
                ~watcherRetryTimer'[p] /\ pollTimer'[p] /\ ~watcher'[p]
          /\ watcherRetryTimer'[p] =>
                /\ watcherRetries'[p] \in 1 .. MAX_WATCHER_RETRIES - 1
                /\ retryDelay'[p] = 1000 * pow2(watcherRetries'[p] - 1)
                /\ retryDelay'[p] <= MAX_RETRY_DELAY_MS
          /\ watcherRetries'[p] = watcherRetries[p] + 1 =>
                /\ watcherRetryTimer'[p] = (watcherRetries'[p] < MAX_WATCHER_RETRIES)
                /\ (watcherRetryTimer[p] /\ watcherRetryTimer'[p]) =>
                      retryDelay'[p] = 2 * retryDelay[p]]_vars

\* C33 witness: five failures in a row are counted, no retry is scheduled and
\* the polling loop runs; the retry scheduled last waited 8 s.
PollingWitness ==
    \E p \in Procs :
        /\ watcherRetries[p] = MAX_WATCHER_RETRIES /\ pollTimer[p]
        /\ ~watcherRetryTimer[p] /\ ~watcher[p] /\ retryDelay[p] = 8000

\* C34 as stated: once the polling loop runs because the retries were used up,
\* the platform watcher is never started again and the retry counter is never
\* reset.
PollingIsPermanent ==
    [][\A p \in Procs :
          (pollTimer[p] /\ watcherRetries[p] = MAX_WATCHER_RETRIES) =>
              /\ ~watcher'[p]
              /\ watcherRetries'[p] = MAX_WATCHER_RETRIES]_vars

\* a handler that resets state.watcherRetries before it calls startWatcher: the
\* session_switch, session_fork and turn_end events, and a successful rename
ResetsRetries(p) ==
    \/ \E watchOk \in BOOLEAN : RecoverWatcher(p, watchOk)
    \/ \E watchOk \in BOOLEAN : ExecuteRename(p, TRUE, watchOk)

\* C34, as the code has it: once the polling loop runs because the retries were
\* used up, the watcher is started again and the counter reset only by a
\* session_switch, session_fork or turn_end event or by a successful rename;
\* that handler sets the counter to 0, stops the polling loop and calls
\* fs.watch again.  No timer and no failed rename ends the fallback.
PollingUntilRecovery ==
    [][\A p \in Procs :
          (pollTimer[p] /\ watcherRetries[p] = MAX_WATCHER_RETRIES) =>
              \/ /\ pollTimer'[p] /\ ~watcher'[p] /\ ~watcherRetryTimer'[p]
                 /\ watcherRetries'[p] = MAX_WATCHER_RETRIES
              \/ /\ ResetsRetries(p)
                 /\ ~pollTimer'[p]
                 /\ \/ watcher'[p] /\ watcherRetries'[p] = 0
                    \/ watcherRetryTimer'[p] /\ watcherRetries'[p] = 1]_vars

\* C34 witness: a process that had fallen back to polling has a running watcher
\* again, and another process is polling with its retries used up.
RecoveredWitness ==
    \E p, q \in Procs :
        /\ watcher[p] /\ retryDelay[p] = 8000 /\ watcherRetries[p] = 0
        /\ pollTimer[q] /\ watcherRetries[q] = MAX_WATCHER_RETRIES

\* the status changes the lifecycle of a task allows: start, done, block,
\* unblock, and reset from any status
Transitions ==
    {<<"todo", "in_progress">>, <<"in_progress", "done">>, <<"in_progress", "blocked">>,
     <<"blocked", "todo">>, <<"in_progress", "todo">>, <<"done", "todo">>}

\* C35: the status of a task changes only along todo -> in_progress,
\* in_progress -> done, in_progress -> blocked, blocked -> todo and the reset
\* of any status to todo; so a task becomes blocked only from in_progress (a
\* block of a todo, done or blocked task leaves the status alone) and a done
\* task leaves done only by becoming todo through reset.
StatusFollowsTransitions ==
    [][\A id \in DOMAIN tasks :
          tasks'[id].status # tasks[id].status =>
              <<tasks[id].status, tasks'[id].status>> \in Transitions]_vars

\* every dependency of an existing task is an existing done task
dependenciesDone(id) ==
    \A depId \in tasks[id].depends_on : taskExists(depId) /\ tasks[depId].status = "done"

\* C36: a task becomes in_progress only from todo and only when every
\* depends_on id refers to an existing done task; and a task.start of an
\* existing task either finds it todo with all dependencies done and makes it
\* in_progress, or returns invalid_status (the task is not todo) or
\* unmet_dependencies and changes neither the tasks nor the plan.
StartOnlyWhenReady ==
    [][/\ \A id \in DOMAIN tasks :
             (tasks'[id].status = "in_progress" /\ tasks[id].status # "in_progress") =>
                 tasks[id].status = "todo" /\ dependenciesDone(id)
       /\ \A id \in DOMAIN tasks :
             TaskStart(id) =>
                 IF tasks[id].status = "todo" /\ dependenciesDone(id)
                 THEN tasks' = updateTask(tasks, id, "in_progress") /\ taskResult' = ""
                 ELSE /\ taskResult' = IF tasks[id].status # "todo" THEN "invalid_status"
                                       ELSE "unmet_dependencies"
                      /\ UNCHANGED <<tasks, plan>>]_vars

\* C36 witness: a task whose dependency is done has been started, and the
\* start of a task that depends on it has just been refused with
\* unmet_dependencies.
StartWitness ==
    \E a, b \in DOMAIN tasks :
        /\ tasks[a].status = "in_progress" /\ tasks[a].depends_on # {}
        /\ tasks[b].status = "todo" /\ a \in tasks[b].depends_on
        /\ taskResult = "unmet_dependencies"

(***************************************************************************)
(* The plan handler after the planner has returned: the parsed tasks are   *)
(* created, then the dependency strings of each are resolved to task ids   *)
(***************************************************************************)
\* titles the planner gives its tasks
Titles == {"api", "ui"}

\* a dependency string of the planner's output: the title of a task, or
\* "task n" / "task-n" for the n-th task of the list (one position beyond the
\* longest list included, which names no task)
Refs ==
    {[kind |-> "title", title |-> t, n |-> 0] : t \in Titles}
        \cup {[kind |-> "task", title |-> "", n |-> k] : k \in 1 .. MaxTasks + 1}

\* the lists parseJsonTaskBlock / parseTasksFromOutput may return: up to
\* MaxTasks tasks, each with a title and at most MaxRefs dependency strings
ParsedTasks ==
    UNION {[1 .. n -> {[title |-> t, dependsOn |-> d] :
                          t \in Titles,
                          d \in {r \in SUBSET Refs : Cardinality(r) <= MaxRefs}}] :
           n \in 1 .. MaxTasks}

\* titleToId.get(dep.toLowerCase()) after the first loop has created the tasks
\* under the ids first .. first + Len(parsed) - 1: a later task with the same
\* title has overwritten the entry of an earlier one; 0 when there is no entry
titleToId(parsed, first, ref) ==
    LET named == IF ref.kind = "task" THEN {ref.n} \cap (1 .. Len(parsed))
                 ELSE {i \in 1 .. Len(parsed) : parsed[i].title = ref.title}
    IN  IF named = {} THEN 0
        ELSE first - 1 + CHOOSE i \in named : \A j \in named : j <= i

\* resolvedDeps of the i-th created task: the ids found, its own id left out
resolvedDeps(parsed, first, i) ==
    {titleToId(parsed, first, ref) : ref \in parsed[i].dependsOn} \ {0, first - 1 + i}

\* the two loops of the plan handler for the list the parser returned:
\* store.createTask for every parsed task (ids from allocateTaskId on,
\* plan.task_count counted up), then
\* store.updateTask(cwd, task.id, {depends_on: resolvedDeps})
PlanWritesTasks ==
    /\ planExists /\ DOMAIN tasks = {} /\ taskOps < MaxTaskOps
    /\ taskOps' = taskOps + 1
    /\ \E parsed \in ParsedTasks :
          LET first == allocateTaskId
          IN  /\ tasks' = [id \in first .. first + Len(parsed) - 1 |->
                              [status |-> "todo",
                               depends_on |-> resolvedDeps(parsed, first, id - first + 1)]]
              /\ plan' = [plan EXCEPT !.task_count = @ + Len(parsed)]
    /\ taskResult' = ""
    /\ UNCHANGED nonTaskVars

NextPlanTasks ==
    \/ PlanWritesTasks
    \/ \E id \in TaskNums : TaskStart(id)
    \/ \E id \in TaskNums : TaskDone(id)

SpecPlanTasks == InitTasks /\ [][NextPlanTasks]_vars

\* C37: once the plan action has created the tasks and rewritten their
\* dependency strings, every depends_on entry is the id of an existing task,
\* no task depends on itself directly or through other tasks, and validatePlan
\* reports no circular dependency.
PlanGraphAcyclic ==
    /\ \A id \in DOMAIN tasks : tasks[id].depends_on \subseteq DOMAIN tasks
    /\ \A id \in DOMAIN tasks : ~onCycle(id)
    /\ circularErrors = {}

(***************************************************************************)
(* src/crew/store.ts createTask called by task.create in several           *)
(* processes that share one project folder: one action per file operation  *)
(***************************************************************************)
\* task.create has found the plan; createTask calls allocateTaskId, which
\* lists the tasks directory
CreateAllocate(p) ==
    /\ alive[p] /\ createPc[p] = "idle" /\ planExists
    /\ taskOps < MaxTaskOps /\ allocateTaskId <= MaxTasks
    /\ taskOps' = taskOps + 1
    /\ createId' = [createId EXCEPT ![p] = allocateTaskId]
    /\ createPc' = [createPc EXCEPT ![p] = "create_write"]
    /\ UNCHANGED <<nonTaskCreateVars, tasks, plan, taskResult, watchVars, returnedIds>>

\* writeJson(tasks/<id>.json, task) replaces whatever file has the name; then
\* plan.task_count is counted up and the task is returned
CreateWrite(p) ==
    /\ alive[p] /\ createPc[p] = "create_write"
    /\ tasks' = [n \in DOMAIN tasks \cup {createId[p]} |->
                    IF n = createId[p] THEN [status |-> "todo", depends_on |-> {}]
                    ELSE tasks[n]]
    /\ plan' = [plan EXCEPT !.task_count = @ + 1]
    /\ returnedIds' = Append(returnedIds, createId[p])
    /\ createPc' = [createPc EXCEPT ![p] = "idle"]
    /\ createId' = [createId EXCEPT ![p] = 0]
    /\ taskResult' = ""
    /\ UNCHANGED <<nonTaskCreateVars, taskOps, watchVars>>

NextCreate ==
    \/ \E p \in Procs : CreateAllocate(p)
    \/ \E p \in Procs : CreateWrite(p)

SpecCreate == InitTasks /\ [][NextCreate]_vars

\* C38: every created task got the id one above the largest existing number,
\* no createTask call writes over an existing task file, and no two calls
\* return the same id, however the calls of different processes interleave.
TaskIdsUnique ==
    /\ \A i, j \in 1 .. Len(returnedIds) : i # j => returnedIds[i] # returnedIds[j]
    /\ \A p \in Procs : createPc[p] = "create_write" => createId[p] \notin DOMAIN tasks
    /\ Len(returnedIds) = Cardinality(DOMAIN tasks)

(***************************************************************************)
(* src/crew/agents.ts runAgent: the child process and the abort signal     *)
(***************************************************************************)
\* proc.kill(signal) of Node's child_process: the signal is delivered when the
\* child has not exited, and proc.killed becomes true when it was delivered
\* (it does not tell whether the child has terminated)
killDelivers(pcOfChild) == pcOfChild = "running"

\* kill(): proc.kill("SIGTERM") and setTimeout(..., 3000)
kill(c) ==
    /\ sent' = [sent EXCEPT ![c] = IF killDelivers(childPc[c]) THEN Append(@, "SIGTERM") ELSE @]
    /\ procKilled' = [procKilled EXCEPT ![c] = @ \/ killDelivers(childPc[c])]
    /\ killTimer' = [killTimer EXCEPT ![c] = TRUE]

\* runAgent spawns the child; with options.signal already aborted it calls
\* kill() at once, else it adds kill as listener of the abort event
ChildSpawn(c) ==
    /\ childPc[c] = "unspawned"
    /\ childPc' = [childPc EXCEPT ![c] = "running"]
    /\ IF aborted
       THEN /\ sent' = [sent EXCEPT ![c] = Append(@, "SIGTERM")]
            /\ procKilled' = [procKilled EXCEPT ![c] = TRUE]
            /\ killTimer' = [killTimer EXCEPT ![c] = TRUE]
       ELSE UNCHANGED <<sent, procKilled, killTimer>>
    /\ UNCHANGED <<nonKillVars, aborted>>

\* the abort signal fires: the listener of every child spawned so far runs
Abort ==
    /\ ~aborted
    /\ aborted' = TRUE
    /\ LET listening == {c \in Children : childPc[c] # "unspawned"}
       IN  /\ sent' = [c \in Children |->
                          IF c \in listening /\ killDelivers(childPc[c])
                          THEN Append(sent[c], "SIGTERM") ELSE sent[c]]
           /\ procKilled' = [c \in Children |->
                                procKilled[c] \/ (c \in listening /\ killDelivers(childPc[c]))]
           /\ killTimer' = [c \in Children |-> killTimer[c] \/ c \in listening]
    /\ UNCHANGED <<nonKillVars, childPc>>

\* the child exits: by itself, because of SIGTERM, or (always possible, and
\* the only thing left to it) because of SIGKILL
ChildExits(c) ==
    /\ childPc[c] = "running"
    /\ childPc' = [childPc EXCEPT ![c] = "exited"]
    /\ UNCHANGED <<nonKillVars, aborted, procKilled, sent, killTimer>>

\* 3 s after kill(): !proc.killed && proc.kill("SIGKILL")
KillTimerFires(c) ==
    /\ killTimer[c]
    /\ killTimer' = [killTimer EXCEPT ![c] = FALSE]
    /\ IF ~procKilled[c] /\ killDelivers(childPc[c])
       THEN /\ sent' = [sent EXCEPT ![c] = Append(@, "SIGKILL")]
            /\ procKilled' = [procKilled EXCEPT ![c] = TRUE]
       ELSE UNCHANGED <<sent, procKilled>>
    /\ UNCHANGED <<nonKillVars, aborted, childPc>>

InitAbort == InitJoined /\ envName = [p \in Procs |-> ""] /\ InitIdle

NextAbort ==
    \/ \E c \in Children : ChildSpawn(c)
    \/ Abort
    \/ \E c \in Children : ChildExits(c)
    \/ \E c \in Children : KillTimerFires(c)

SpecAbort == InitAbort /\ [][NextAbort]_vars

\* C39: when the abort signal fires, every running child is sent SIGTERM (a
\* child spawned under a signal that has fired gets it at once); and when the
\* 3 s timer of a child fires and the child has not exited, the child is sent
\* SIGKILL.
AbortKillsChild ==
    [][\A c \in Children :
          /\ (aborted' /\ childPc'[c] = "running") => (\E i \in 1 .. Len(sent'[c]) : sent'[c][i] = "SIGTERM")
          /\ (killTimer[c] /\ ~killTimer'[c] /\ childPc[c] = "running") =>
                sent'[c] = <<"SIGTERM", "SIGKILL">>]_vars

\* work.ts after await spawnAgents: r = workerResults[i] is read as the result
\* of tasksToRun[i]
taskId(i) == taskAt(tasksToRun, i)

\* succeeded.push(taskId): exit code 0 and the task is done
succeeded ==
    {taskId(i) : i \in {j \in 1 .. Len(results) :
        /\ results[j].exitCode = 0
        /\ taskExists(taskId(j)) /\ tasks[taskId(j)].status = "done"}}

\* blocked.push(taskId): exit code 0 and the task is blocked, or the task is
\* blocked by the handler
blocked ==
    autoBlocked \cup
    {taskId(i) : i \in {j \in 1 .. Len(results) :
        /\ results[j].exitCode = 0
        /\ taskExists(taskId(j)) /\ tasks[taskId(j)].status = "blocked"}}

\* failed.push(taskId): every other result
failed ==
    {taskId(i) : i \in {j \in 1 .. Len(results) : taskId(j) \notin succeeded \cup blocked}}

\* C40: when the workers of a wave have all closed, result i of spawnAgents is
\* the exit result of the worker spawned for task i of the wave, whatever the
\* order in which the workers finished, and every attempted task is in exactly
\* one of succeeded, failed and blocked.
ResultsAttributed ==
    (workPc = "wave" /\ queue = {} /\ running = {}) =>
        /\ \A i \in 1 .. Len(results) : results[i].task = taskId(i)
        /\ succeeded \cup failed \cup blocked = tasksToRun
        /\ succeeded \cap failed = {} /\ succeeded \cap blocked = {} /\ failed \cap blocked = {}

\* the positions of the processes and the shapes of the files
TypeOK ==
    /\ alive \in [Procs -> BOOLEAN]
    /\ registered \in [Procs -> BOOLEAN]
    /\ pc \in [Procs -> {"idle", "dead", "lock_stat", "lock_read", "lock_unlink", "lock_open",
                         "lock_write", "cs_read", "cs_write_completions", "cs_write_claims",
                         "lock_release"}]
    /\ tries \in [Procs -> 0 .. MaxRetries]
    /\ opsStarted \in 0 .. MaxOps
    /\ completions \in [Slots -> BOOLEAN]
    /\ planPc \in [Procs -> {"idle", "dead", "plan_lock_stat", "plan_lock_read", "plan_lock_unlink",
                             "plan_lock_open", "plan_lock_write", "plan_get", "plan_create",
                             "plan_planner", "plan_release"}]
    /\ planTries \in [Procs -> 0 .. PlanRetries]
    /\ planExists \in BOOLEAN
    /\ autonomousState \in [active : BOOLEAN, waveNumber : 0 .. MaxWaveLimit + 1,
                            waveHistory : 0 .. MaxWaveLimit,
                            stopReason : {"", "completed", "blocked", "manual"}]
    /\ maxWaves \in 1 .. MaxWaveLimit
    /\ workPc \in {"idle", "scouts", "failed", "wave", "agent_end", "steered"}
    /\ waveAutonomous \in BOOLEAN
    /\ concurrency \in Concurrencies
    /\ tasksToRun \subseteq 1 .. MaxTasks
    /\ queue \subseteq 1 .. MaxTasks
    /\ running \subseteq 1 .. MaxTasks
    /\ results \in Seq([exitCode : {0, 1}, task : 1 .. MaxTasks]) /\ Len(results) <= MaxTasks
    /\ grandchildren \in 0 .. MaxGrandchildren
    /\ stateSessionId \in [Procs -> 0 .. NumSessions]
    /\ inboxDirs \subseteq 1 .. NumSessions
    /\ readerPc \in [Procs -> {"idle", "unlink", "rmdir"}]
    /\ readerFile \in [Procs -> {""} \cup Names]
    /\ reads \in 0 .. MaxReads
    /\ watcher \in [Procs -> BOOLEAN] /\ watcherRetryTimer \in [Procs -> BOOLEAN]
    /\ pollTimer \in [Procs -> BOOLEAN]
    /\ watcherRetries \in [Procs -> 0 .. MAX_WATCHER_RETRIES]
    /\ retryDelay \in [Procs -> 0 .. MAX_RETRY_DELAY_MS]
    /\ createPc \in [Procs -> {"idle", "create_write"}]
    /\ createId \in [Procs -> 0 .. MaxTasks]
    /\ returnedIds \in Seq(1 .. MaxTasks)
    /\ aborted \in BOOLEAN
    /\ childPc \in [Children -> {"unspawned", "running", "exited"}]
    /\ procKilled \in [Children -> BOOLEAN] /\ killTimer \in [Children -> BOOLEAN]
    /\ \A c \in Children : sent[c] \in {<<>>, <<"SIGTERM">>, <<"SIGTERM", "SIGKILL">>}
    /\ planResult \in [Procs -> [error : {"", "locked", "plan_exists", "prd_not_found"}
                                          \cup PlanFailures,
                                  existingPrd : PrdPaths \cup {""}]]
    /\ plan.prd \in PrdPaths \cup {""}
    /\ DOMAIN tasks \subseteq 1 .. MaxTasks
    /\ \A id \in DOMAIN tasks :
          /\ tasks[id].status \in {"todo", "in_progress", "done", "blocked"}
          /\ tasks[id].depends_on \subseteq 1 .. MaxTasks
    /\ regPc \in [Procs -> {"idle", "dead", "reg_check", "reg_exists", "reg_unlink", "reg_write",
                            "reg_verify", "ren_drain", "ren_write", "ren_verify",
                            "ren_unlink_new", "ren_unlink_old", "ren_watch"}]
    /\ attempt \in [Procs -> 0 .. MaxAttempts - 1]
    /\ msgPc \in [Procs -> {"idle", "exited", "crashed", "send_write", "send_rename",
                            "scan_again", "scan_deliver", "scan_unlink", "scan_quarantine"}]
    /\ msgFile \in [Msgs -> {"unsent", "tmp", "tmp_removed", "inbox", "deleted", "deadletter",
                             "deadletter_removed", "removed"}]
    /\ delivered \in [Msgs -> Nat]
    /\ index \in [Procs -> Nat]
    /\ unreadCounts \in [Names -> 0 .. MaxDeliveries]
    /\ seenSenders \in [Names -> SenderSessions]
    /\ deliveries \in 0 .. MaxDeliveries
    /\ Len(sentMessages) = deliveries

====
